---------------------------- MODULE Spec2Model ----------------------------
(***************************************************************************)
(* Request lifecycle engine of Elysia: scope building (group / guard),     *)
(* hook and schema merging, validator compilation, Elysia.handle and the   *)
(* handler built by composeHandler.                                        *)
(***************************************************************************)
EXTENDS Integers, Sequences, FiniteSets, TLC

(***************************************************************************)
(* Bounds of the model.                                                    *)
(***************************************************************************)
\* on*, group and guard calls made while the application is declared
MaxOn == 2
\* routes declared with get, post
MaxRoutes == 1
\* routes declared with all
MaxAll == 1
\* nesting of group / guard callbacks, the application included
MaxDepth == 3
\* calls of Elysia.handle that may overlap
MaxReqs == 2

(***************************************************************************)
(* JavaScript values, as far as the engine inspects them.                  *)
(***************************************************************************)
Undef == [t |-> "undef", k |-> {}, id |-> 0]
Null == [t |-> "null", k |-> {}, id |-> 0]
False == [t |-> "bool", k |-> {}, id |-> 0]
Str(n) == [t |-> "str", k |-> {}, id |-> n]
Obj(keys) == [t |-> "obj", k |-> keys, id |-> 0]
Num(n) == [t |-> "num", k |-> {}, id |-> n]
NaN == [t |-> "nan", k |-> {}, id |-> 0]

\* response !== null && response !== undefined
IsNullish(v) == v.t \in {"undef", "null"}

\* if (newResponse): JavaScript truthiness
Truthy(v) == v.t \in {"str", "obj"} \/ (v.t = "num" /\ v.id # 0)

(***************************************************************************)
(* Paths are sequences of characters.                                      *)
(***************************************************************************)
Slash == <<"/">>
PathA == <<"/", "a">>
\* a group prefix written without its leading slash
PrefixA == <<"a">>

\* path.startsWith('/')
startsWithSlash(p) == Len(p) > 0 /\ Head(p) = "/"

(***************************************************************************)
(* Lifecycle callbacks.  A callback is a user function; k names what it    *)
(* does when called, o where it was declared, id tells callbacks apart.    *)
(***************************************************************************)
mkHook(n, origin, kind) == [id |-> n, o |-> origin, k |-> kind]

\* x.constructor.name === 'AsyncFunction'; such a function returns a Promise
isAsync(h) == h.k \in {"async", "asyncval"}

HookThrows(h) == h.k = "throw"

\* a function that is not an AsyncFunction and returns a Promise that rejects
\* (the kind is given to transform hooks, whose value nobody reads)
HookRejects(h) == h.k = "reject"

\* ({ store }) => { store.counter++ } (the kind is given to request hooks)
HookCounts(h) == h.k = "count"

\* store.counter++ : NaN when the store has no counter
Increment(store) ==
    [key \in DOMAIN store \cup {"counter"} |->
        IF key # "counter" THEN store[key]
        ELSE IF "counter" \in DOMAIN store /\ store["counter"].t = "num"
        THEN Num(store["counter"].id + 1)
        ELSE NaN]

\* the call raises where its result is awaited when it is a Promise
Raises(h) == HookThrows(h) \/ HookRejects(h)

HookReturn(h) ==
    CASE h.k \in {"val", "asyncval"} -> Str(h.id)
      [] h.k = "null" -> Null
      [] h.k = "false" -> False
      [] h.k = "body" -> Obj({"username"})
      [] OTHER -> Undef

\* the status a callback stages in context.set (0: it leaves set alone)
HookStatus(h) ==
    CASE h.k = "status" -> 201
      [] h.k = "teapot" -> 418
      [] OTHER -> 0

\* A field of a LocalHook (WithArray<T> | undefined): an array of callbacks
\* is a sequence, a single callback f is Fn(f), a field left out is Absent.
Fn(f) == [n \in {0} |-> f]
Absent == [n \in {-1} |-> Undef]

\* Array.isArray(x)
isArray(x) == \A n \in DOMAIN x : n >= 1

\* x ?? []
orEmpty(x) == IF -1 \in DOMAIN x THEN <<>> ELSE x

\* the number of callbacks a field holds
Count(x) == Cardinality({n \in DOMAIN x : n >= 0})

\* ids of the hooks of a declaration start after n
Stamp(kinds, n, origin) ==
    IF -1 \in DOMAIN kinds THEN Absent
    ELSE IF isArray(kinds)
    THEN [i \in 1..Len(kinds) |-> mkHook(n + i, origin, kinds[i])]
    ELSE Fn(mkHook(n + 1, origin, kinds[0]))

(***************************************************************************)
(* Schema descriptors live in a heap: getSchemaValidator writes into the   *)
(* descriptor it is given.                                                 *)
(***************************************************************************)
Unset == [kind |-> "unset", id |-> ""]
Inline(sid) == [kind |-> "inline", id |-> sid]
Named(name) == [kind |-> "name", id |-> name]

\* the descriptors the application code creates with t.Object / t.String
InitHeap ==
    [sid \in {"B", "Q", "QL", "H", "R"} |->
        CASE sid = "B" -> [type |-> "object", props |-> {"username"}, ap |-> "unset"]
          [] sid = "Q" -> [type |-> "object", props |-> {"name"}, ap |-> "unset"]
          [] sid = "QL" -> [type |-> "object", props |-> {"a"}, ap |-> "unset"]
          [] sid = "H" -> [type |-> "object", props |-> {"a"}, ap |-> "unset"]
          [] OTHER -> [type |-> "string", props |-> {}, ap |-> "unset"]]

NoValidator == [ok |-> FALSE, type |-> "", props |-> {}, ap |-> FALSE, sid |-> ""]

\* TypeCompiler.Compile(schema): the check is fixed when it is compiled
Compile(h, sid) ==
    [ok |-> TRUE, type |-> h[sid].type, props |-> h[sid].props,
     ap |-> (h[sid].ap = "allow"), sid |-> sid]

\* validator.Check(value)
Check(v, value) ==
    IF v.type = "object"
    THEN /\ value.t = "obj"
         /\ v.props \subseteq value.k
         /\ (v.ap \/ value.k \subseteq v.props)
    ELSE value.t = "str"

\* s ?? fallback
Nullish(s, fallback) == IF s.kind = "unset" THEN fallback ELSE s

\* typeof s === 'string' ? models[s] : s
Resolve(s, models) == IF s.kind = "name" THEN models[s.id] ELSE s.id

getSchemaValidator(s, models, additionalProperties, h) ==
    IF s.kind = "unset" THEN [v |-> NoValidator, heap |-> h]
    ELSE IF s.kind = "name" /\ s.id \notin DOMAIN models
    THEN [v |-> NoValidator, heap |-> h]
    ELSE LET sid == Resolve(s, models)
             h2 == IF h[sid].type = "object" /\ h[sid].ap = "unset"
                   THEN [h EXCEPT ![sid].ap =
                            IF additionalProperties THEN "allow" ELSE "reject"]
                   ELSE h
         IN  [v |-> Compile(h2, sid), heap |-> h2]

\* a bare schema is the validator of status 200
getResponseSchemaValidator(s, models, additionalProperties, h) ==
    IF s.kind = "unset" THEN [v |-> <<>>, heap |-> h]
    ELSE IF s.kind = "name" /\ s.id \notin DOMAIN models
    THEN [v |-> <<>>, heap |-> h]
    ELSE [v |-> (200 :> Compile(h, Resolve(s, models))), heap |-> h]

(***************************************************************************)
(* Hook sets and their merge.                                              *)
(***************************************************************************)
NoSchema ==
    [set |-> FALSE, body |-> Unset, headers |-> Unset, header |-> Unset,
     params |-> Unset, query |-> Unset, response |-> Unset, detail |-> Undef]

mkSchema(b, h, p, q, r) ==
    [set |-> TRUE, body |-> b, headers |-> h, header |-> Unset,
     params |-> p, query |-> q, response |-> r, detail |-> Undef]

\* a plain object with the properties of m (the detail of a schema and the
\* objects inside it); its leaves are strings
Plain(m) == [t |-> "plain", m |-> m]

\* isObject(item)
isObject(item) == item.t = "plain"

\* Object.assign({}, target): the copy of an object; of a string, the object
\* of its characters
assignTo(target) ==
    IF isObject(target) THEN target ELSE Plain("chars" :> target)

\* x ?? {}
orObject(x) == IF x = Undef THEN Plain(<<>>) ELSE x

RECURSIVE mergeDeep(_, _)
mergeDeep(target, source) ==
    IF isObject(target) /\ isObject(source)
    THEN Plain([key \in DOMAIN target.m \cup DOMAIN source.m |->
                   IF key \notin DOMAIN source.m THEN target.m[key]
                   ELSE IF isObject(source.m[key])
                   THEN IF key \notin DOMAIN target.m THEN source.m[key]
                        ELSE mergeDeep(target.m[key], source.m[key])
                   ELSE source.m[key]])
    ELSE assignTo(target)

\* new Elysia().event
EmptyEvent ==
    [start |-> <<>>, request |-> <<>>, parse |-> <<>>, transform |-> <<>>,
     beforeHandle |-> <<>>, afterHandle |-> <<>>, error |-> <<>>, stop |-> <<>>]

\* an absent hook argument
NoHook ==
    [defined |-> FALSE, schema |-> NoSchema, transform |-> <<>>,
     beforeHandle |-> <<>>, parse |-> <<>>, afterHandle |-> <<>>,
     error |-> <<>>]

\* a LifeCycleStore passed where a hook set is expected: it has no schema
EventAsHook(ev) ==
    [defined |-> TRUE, schema |-> NoSchema, transform |-> ev.transform,
     beforeHandle |-> ev.beforeHandle, parse |-> ev.parse,
     afterHandle |-> ev.afterHandle, error |-> ev.error]

\* the arrays merged the other way round
mergeObjectArrayInnerFirst(a, b) ==
    (IF isArray(b) THEN b ELSE <<b[0]>>) \o (IF isArray(a) THEN a ELSE <<a[0]>>)

\* a value that is not an array left out of the result
mergeObjectArrayArraysOnly(a, b) ==
    (IF isArray(a) THEN a ELSE <<>>) \o (IF isArray(b) THEN b ELSE <<>>)

mergeObjectArray(a, b) ==
    (IF isArray(a) THEN a ELSE <<a[0]>>) \o (IF isArray(b) THEN b ELSE <<b[0]>>)

mergeHook(a, b) ==
    LET aSchema == a.schema
        bSchema == b.schema
    IN  [defined |-> TRUE,
         schema |->
            IF aSchema.set \/ bSchema.set
            THEN [set |-> TRUE,
                  body |-> Nullish(bSchema.body, aSchema.body),
                  header |-> Nullish(bSchema.headers, aSchema.headers),
                  headers |-> Unset,
                  params |-> Nullish(bSchema.params, aSchema.params),
                  query |-> Nullish(bSchema.query, aSchema.query),
                  response |-> Nullish(bSchema.response, aSchema.response),
                  detail |-> mergeDeep(orObject(bSchema.detail),
                                       orObject(aSchema.detail))]
            ELSE NoSchema,
         transform |-> mergeObjectArray(orEmpty(a.transform),
                                        orEmpty(b.transform)),
         beforeHandle |-> mergeObjectArray(orEmpty(a.beforeHandle),
                                           orEmpty(b.beforeHandle)),
         parse |-> mergeObjectArray(orEmpty(a.parse), orEmpty(b.parse)),
         afterHandle |-> mergeObjectArray(orEmpty(a.afterHandle),
                                          orEmpty(b.afterHandle)),
         error |-> mergeObjectArray(orEmpty(a.error), orEmpty(b.error))]


(***************************************************************************)
(* State.                                                                  *)
(*  scopes   the Elysia instances under construction: scopes[1] is the     *)
(*           application, every further frame the child instance of a      *)
(*           group or guard call whose callback is running                 *)
(*  heap     the schema descriptors                                        *)
(*  phase    "build" while routes are declared, "serve" afterwards         *)
(*  context  the object Elysia.handle uses as the request context          *)
(*  sets     the set objects ({status, headers}) created so far            *)
(*  reqs     the calls of Elysia.handle / of a composed handler            *)
(*  running  the call that holds the thread (0: the event loop is idle)    *)
(***************************************************************************)
VARIABLES scopes, heap, phase, nextId, nOn, nRoutes, used,
          context, sets, reqs, running

buildVars == <<scopes, heap, nextId, nOn, nRoutes, used>>
runVars == <<context, sets, reqs, running>>
vars == <<scopes, heap, phase, nextId, nOn, nRoutes, used,
          context, sets, reqs, running>>

(***************************************************************************)
(* Instances.                                                              *)
(***************************************************************************)
\* new Elysia()
\* deco: the properties decorate added to this.decorators; own: the object
\* the field initialiser store = {} made (the one of the application is
\* context[0].store, which its decorators hold); store: the instance whose
\* object this.store refers to, by its depth in scopes
NewElysia ==
    [event |-> EmptyEvent, routes |-> <<>>, router |-> <<>>, defs |-> <<>>,
     dschema |-> NoSchema, deco |-> <<>>, own |-> <<>>, store |-> 1]

NoValidatorSet ==
    [defined |-> FALSE, body |-> NoValidator, header |-> NoValidator,
     headers |-> NoValidator, params |-> NoValidator, query |-> NoValidator,
     response |-> <<>>]

\* the schema a route ends up with according to its declarations: the
\* innermost declaration of a field, else the next outer one
DeclMerge(outer, inner) ==
    [set |-> outer.set \/ inner.set,
     body |-> Nullish(inner.body, outer.body),
     headers |-> Nullish(inner.headers, outer.headers),
     header |-> Unset,
     params |-> Nullish(inner.params, outer.params),
     query |-> Nullish(inner.query, outer.query),
     response |-> Nullish(inner.response, outer.response)]

\* Elysia._addHandler; decl and guarded only record what was declared: the
\* schema of the route and the schemas of the guards around it, outermost
\* first
addHandler(inst, method, path0, handler, hook, h, decl, guarded) ==
    LET path == IF startsWithSlash(path0) THEN path0 ELSE Slash \o path0
        route == [method |-> method, path |-> path, handler |-> handler,
                  hooks |-> mergeHook(EventAsHook(inst.event), hook),
                  decl |-> decl, guarded |-> guarded]
        defs == inst.defs
        rb == getSchemaValidator(
                Nullish(hook.schema.body, inst.dschema.body), defs, FALSE, h)
        rh == getSchemaValidator(
                Nullish(hook.schema.headers, inst.dschema.headers), defs, TRUE,
                rb.heap)
        rp == getSchemaValidator(
                Nullish(hook.schema.params, inst.dschema.params), defs, FALSE,
                rh.heap)
        rq == getSchemaValidator(
                Nullish(hook.schema.query, inst.dschema.query), defs, FALSE,
                rp.heap)
        rr == getResponseSchemaValidator(
                Nullish(hook.schema.response, inst.dschema.response), defs,
                FALSE, rq.heap)
        validator ==
            IF rb.v.ok \/ rh.v.ok \/ rp.v.ok \/ rq.v.ok \/ rr.v # <<>>
            THEN [defined |-> TRUE, body |-> rb.v, header |-> rh.v,
                  headers |-> NoValidator, params |-> rp.v, query |-> rq.v,
                  response |-> rr.v]
            ELSE NoValidatorSet
        merged == mergeHook(EventAsHook(inst.event), hook)
        hooks == IF /\ ~merged.schema.set
                    /\ Len(merged.transform) = 0
                    /\ Len(merged.beforeHandle) = 0
                    /\ Len(merged.error) = 0
                    /\ Len(merged.afterHandle) = 0
                 THEN NoHook
                 ELSE merged
        mainHandler == [method |-> method, path |-> path, handle |-> handler,
                        hooks |-> hooks, validator |-> validator,
                        reg |-> merged, decl |-> decl, guarded |-> guarded]
    IN  [inst |-> [inst EXCEPT !.routes = Append(@, route),
                               !.router = Append(@, mainHandler)],
         heap |-> rr.heap]

\* the last registration of a name kept
setModelLastWins(inst, record) ==
    [inst EXCEPT !.defs =
        [key \in DOMAIN inst.defs \cup DOMAIN record |->
            IF key \in DOMAIN record THEN record[key] ELSE inst.defs[key]]]

\* Elysia.setModel
setModel(inst, record) ==
    [inst EXCEPT !.defs =
        [key \in DOMAIN inst.defs \cup DOMAIN record |->
            IF key \in DOMAIN inst.defs THEN inst.defs[key] ELSE record[key]]]

\* this.event.parse.splice(this.event.parse.length - 1, 0, parser)
spliceBeforeLast(seq, x) ==
    IF Len(seq) = 0 THEN <<x>>
    ELSE SubSeq(seq, 1, Len(seq) - 1) \o <<x>> \o <<seq[Len(seq)]>>

(***************************************************************************)
(* Declaring the application.                                              *)
(***************************************************************************)
Top == scopes[Len(scopes)]

Building == phase = "build"

SetTop(inst) == scopes' = [scopes EXCEPT ![Len(scopes)].inst = inst]

OnCommon(inst) ==
    /\ Building
    /\ nOn < MaxOn
    /\ SetTop(inst)
    /\ nOn' = nOn + 1
    /\ nextId' = nextId + 1
    /\ UNCHANGED <<heap, phase, nRoutes, used, context, sets, reqs, running>>

OnRequest(kinds) ==
    \E k \in kinds :
        OnCommon([Top.inst EXCEPT !.event.request =
                    Append(@, mkHook(nextId + 1, "app", k))])

OnParse(kinds) ==
    \E k \in kinds :
        OnCommon([Top.inst EXCEPT !.event.parse =
                    spliceBeforeLast(@, mkHook(nextId + 1, "app", k))])

OnTransform(kinds) ==
    \E k \in kinds :
        OnCommon([Top.inst EXCEPT !.event.transform =
                    Append(@, mkHook(nextId + 1, "app", k))])

OnBeforeHandle(kinds) ==
    \E k \in kinds :
        OnCommon([Top.inst EXCEPT !.event.beforeHandle =
                    Append(@, mkHook(nextId + 1, "app", k))])

OnAfterHandle(kinds) ==
    \E k \in kinds :
        OnCommon([Top.inst EXCEPT !.event.afterHandle =
                    Append(@, mkHook(nextId + 1, "app", k))])

OnError(kinds) ==
    \E k \in kinds :
        OnCommon([Top.inst EXCEPT !.event.error =
                    Append(@, mkHook(nextId + 1, "app", k))])

\* on(type, handler): this.event[type].push(handler) for every type
On(types, kinds) ==
    \E type \in types, k \in kinds :
        OnCommon([Top.inst EXCEPT !.event[type] =
                    Append(@, mkHook(nextId + 1, "app", k))])

\* state(name, value): if (!(name in this.store)) this.store[name] = value;
\* this.store is the store of the application in every instance
State(names, values) ==
    \E name \in names, value \in values :
        LET Put(store) == [key \in DOMAIN store \cup {name} |->
                              IF key \in DOMAIN store THEN store[key]
                              ELSE value]
            ref == Top.inst.store
        IN  /\ Building
            /\ IF ref = 1
               THEN /\ context' = [context EXCEPT ![0].store = Put(@)]
                    /\ UNCHANGED scopes
               ELSE /\ scopes' = [scopes EXCEPT ![ref].inst.own = Put(@)]
                    /\ UNCHANGED context
            /\ UNCHANGED <<heap, phase, nextId, nOn, nRoutes, used,
                           sets, reqs, running>>

\* setModel(record) called on the instance the running callback was given
SetModel(records) ==
    \E record \in records :
        /\ Building
        /\ SetTop(setModel(Top.inst, record))
        /\ UNCHANGED <<heap, phase, nextId, nOn, nRoutes, used,
                       context, sets, reqs, running>>

\* decorate(name, value):
\* if (!(name in this.decorators)) this.decorators[name] = value
Decorate(names, values) ==
    \E name \in names, value \in values :
        /\ Building
        /\ SetTop([Top.inst EXCEPT !.deco =
               [key \in DOMAIN @ \cup {name} |->
                   IF key \in DOMAIN @ THEN @[key] ELSE value]])
        /\ UNCHANGED <<heap, phase, nextId, nOn, nRoutes, used,
                       context, sets, reqs, running>>

\* the hook argument of a route or guard call, its callbacks numbered from n
mkLocal(cfg, n, origin) ==
    [defined |-> TRUE,
     schema |-> cfg.schema,
     transform |-> Stamp(cfg.transform, n, origin),
     beforeHandle |-> Stamp(cfg.beforeHandle, n + Count(cfg.transform), origin),
     parse |-> Stamp(cfg.parse,
                     n + Count(cfg.transform) + Count(cfg.beforeHandle), origin),
     afterHandle |-> Stamp(cfg.afterHandle,
                     n + Count(cfg.transform) + Count(cfg.beforeHandle)
                       + Count(cfg.parse), origin),
     error |-> Stamp(cfg.error,
                     n + Count(cfg.transform) + Count(cfg.beforeHandle)
                       + Count(cfg.parse) + Count(cfg.afterHandle), origin)]

CfgSize(cfg) ==
    Count(cfg.transform) + Count(cfg.beforeHandle) + Count(cfg.parse)
      + Count(cfg.afterHandle) + Count(cfg.error)

\* the path under which a route declared in the current scope is served
RECURSIVE FullPath(_, _)
FullPath(path, d) ==
    IF d = 1 THEN path
    ELSE IF scopes[d].kind = "group"
    THEN LET p == IF path = Slash THEN scopes[d].prefix
                  ELSE scopes[d].prefix \o path
         IN  FullPath(IF startsWithSlash(p) THEN p ELSE Slash \o p, d - 1)
    ELSE FullPath(path, d - 1)

\* get / post / ... / route(method, path, handler, hook?)
Route(methods, paths, handlerKinds, cfgs) ==
    \E m \in methods, p \in paths, hk \in handlerKinds, cfg \in cfgs :
        LET hook == IF cfg.defined THEN mkLocal(cfg, nextId + 1, "local")
                    ELSE NoHook
            handler == [id |-> nextId + 1, k |-> hk]
            np == IF startsWithSlash(p) THEN p ELSE Slash \o p
            r == addHandler(Top.inst, m, p, handler, hook, heap,
                            hook.schema, <<>>)
        IN  /\ Building
            /\ nRoutes < MaxRoutes
            /\ <<m, FullPath(np, Len(scopes))>> \notin used
            /\ SetTop(r.inst)
            /\ heap' = r.heap
            /\ nRoutes' = nRoutes + 1
            /\ nextId' = nextId + 1 + CfgSize(cfg)
            /\ used' = used \cup {<<m, FullPath(np, Len(scopes))>>}
            /\ UNCHANGED <<phase, nOn, context, sets, reqs, running>>

\* all(path, handler): the route of every method on path
All(paths, handlerKinds) ==
    \E p \in paths, hk \in handlerKinds :
        LET handler == [id |-> nextId + 1, k |-> hk]
            np == IF startsWithSlash(p) THEN p ELSE Slash \o p
            r == addHandler(Top.inst, "ALL", p, handler, NoHook, heap,
                            NoSchema, <<>>)
        IN  /\ Building
            /\ Cardinality({u \in used : u[1] = "ALL"}) < MaxAll
            /\ <<"ALL", FullPath(np, Len(scopes))>> \notin used
            /\ SetTop(r.inst)
            /\ heap' = r.heap
            /\ nextId' = nextId + 1
            /\ used' = used \cup {<<"ALL", FullPath(np, Len(scopes))>>}
            /\ UNCHANGED <<phase, nOn, nRoutes, context, sets, reqs, running>>

\* new Elysia() inside group / guard, before run(instance) is called
Frame(kind, prefix, hook) ==
    [kind |-> kind, prefix |-> prefix, hook |-> hook, inst |-> NewElysia]

\* the child keeps the store its constructor made
keepStore(instance, parent) == instance

\* instance.store = this.store
shareStore(instance, parent) == [instance EXCEPT !.store = parent.store]

\* const instance = new Elysia(); instance.store = this.store
Child(kind, prefix, hook) ==
    [Frame(kind, prefix, hook) EXCEPT
        !.inst = shareStore([@ EXCEPT !.store = Len(scopes) + 1], Top.inst)]

GroupBegin(prefixes) ==
    \E prefix \in prefixes :
        /\ Building
        /\ Len(scopes) < MaxDepth
        /\ nOn < MaxOn
        /\ scopes' = Append(scopes, Child("group", prefix, NoHook))
        /\ nOn' = nOn + 1
        /\ UNCHANGED <<heap, phase, nextId, nRoutes, used,
                       context, sets, reqs, running>>

GuardBegin(cfgs) ==
    \E cfg \in cfgs :
        /\ Building
        /\ Len(scopes) < MaxDepth
        /\ nOn < MaxOn
        /\ scopes' = Append(scopes,
                        Child("guard", <<>>, mkLocal(cfg, nextId, "guard")))
        /\ nOn' = nOn + 1
        /\ nextId' = nextId + CfgSize(cfg)
        /\ UNCHANGED <<heap, phase, nRoutes, used,
                       context, sets, reqs, running>>

\* the request hooks of the child left in the child
delegateNothing(parent, sandbox) == parent

\* if (sandbox.event.request.length) this.event.request = [...]
delegateRequest(parent, sandbox) ==
    IF Len(sandbox.event.request) > 0
    THEN [parent EXCEPT !.event.request = @ \o sandbox.event.request]
    ELSE parent

\* the routes of the child added to the parent under the paths they have
RECURSIVE groupRoutesUnprefixed(_, _, _, _, _, _)
groupRoutesUnprefixed(parent, routes, i, prefix, sandbox, h) ==
    IF i > Len(routes) THEN [inst |-> parent, heap |-> h]
    ELSE LET rt == routes[i]
             r == addHandler(parent, rt.method, rt.path, rt.handler,
                     mergeHook(rt.hooks,
                               [NoHook EXCEPT !.defined = TRUE,
                                              !.error = sandbox.event.error]),
                     h, rt.decl, rt.guarded)
         IN  groupRoutesUnprefixed(r.inst, routes, i + 1, prefix, sandbox,
                                   r.heap)

\* Object.values(instance.routes).forEach(...) of Elysia.group
RECURSIVE groupRoutes(_, _, _, _, _, _)
groupRoutes(parent, routes, i, prefix, sandbox, h) ==
    IF i > Len(routes) THEN [inst |-> parent, heap |-> h]
    ELSE LET rt == routes[i]
             path == IF rt.path = Slash THEN prefix ELSE prefix \o rt.path
             r == addHandler(parent, rt.method, path, rt.handler,
                     mergeHook(rt.hooks,
                               [NoHook EXCEPT !.defined = TRUE,
                                              !.error = sandbox.event.error]),
                     h, rt.decl, rt.guarded)
         IN  groupRoutes(r.inst, routes, i + 1, prefix, sandbox, r.heap)

\* Object.values(instance.routes).forEach(...) of Elysia.guard
RECURSIVE guardRoutes(_, _, _, _, _)
guardRoutes(parent, routes, i, hook, h) ==
    IF i > Len(routes) THEN [inst |-> parent, heap |-> h]
    ELSE LET rt == routes[i]
             r == addHandler(parent, rt.method, rt.path, rt.handler,
                     mergeHook(hook, rt.hooks), h,
                     DeclMerge(hook.schema, rt.decl),
                     <<hook.schema>> \o rt.guarded)
         IN  guardRoutes(r.inst, routes, i + 1, hook, r.heap)

\* the part of Elysia.group after run(instance) returned
GroupEnd ==
    /\ Building
    /\ Len(scopes) > 1
    /\ Top.kind = "group"
    /\ LET d == Len(scopes)
           sandbox == Top.inst
           p1 == setModel(delegateRequest(scopes[d - 1].inst, sandbox),
                          sandbox.defs)
           r == groupRoutes(p1, sandbox.routes, 1, Top.prefix, sandbox, heap)
       IN  /\ scopes' = [SubSeq(scopes, 1, d - 1) EXCEPT ![d - 1].inst = r.inst]
           /\ heap' = r.heap
    /\ UNCHANGED <<phase, nextId, nOn, nRoutes, used,
                   context, sets, reqs, running>>

\* the part of Elysia.guard after run(instance) returned
GuardEnd ==
    /\ Building
    /\ Len(scopes) > 1
    /\ Top.kind = "guard"
    /\ LET d == Len(scopes)
           sandbox == Top.inst
           p1 == setModel(delegateRequest(scopes[d - 1].inst, sandbox),
                          sandbox.defs)
           r == guardRoutes(p1, sandbox.routes, 1, Top.hook, heap)
       IN  /\ scopes' = [SubSeq(scopes, 1, d - 1) EXCEPT ![d - 1].inst = r.inst]
           /\ heap' = r.heap
    /\ UNCHANGED <<phase, nextId, nOn, nRoutes, used,
                   context, sets, reqs, running>>

\* the application is complete: requests are dispatched from now on
Serve ==
    /\ Building
    /\ Len(scopes) = 1
    /\ phase' = "serve"
    /\ UNCHANGED <<buildVars, runVars>>

App == scopes[1].inst

(***************************************************************************)
(* Requests.                                                               *)
(***************************************************************************)
ReqIds == 1..MaxReqs

NoErr == [msg |-> "", type |-> ""]
NoResp == [status |-> 0, body |-> Undef]

IdleReq ==
    [pc |-> "idle", impl |-> "", method |-> "", path |-> <<>>, ctype |-> "",
     payload |-> {}, hdr |-> {}, qry |-> {},
     i |-> 0, j |-> 0, route |-> 0,
     herrSet |-> FALSE, handleErrors |-> <<>>,
     body |-> Undef, val |-> Undef, r |-> Undef, err |-> NoErr, set |-> 0,
     bodyUsed |-> FALSE, used |-> FALSE,
     resp |-> NoResp, out |-> "", log |-> <<>>, staged |-> 200,
     calls |-> 0]

\* the context object of new Elysia(): this.decorators
\* store is the object this.store of the application, which every instance
\* made by group or guard is given as its own store
Decorators ==
    [request |-> 0, set |-> 0, body |-> Undef, params |-> Undef,
     query |-> Undef, store |-> <<>>]

\* what a user function (hook or handler) returns
handlerReturn(h) ==
    CASE h.k = "bad" -> Obj({})
      [] h.k = "throw" -> Undef
      [] OTHER -> Str(h.id)

\* ({ store: { counter } }) => counter and ({ a }) => a read the context
\* they are called with; deco holds the properties decorate added to it
handlerResult(h, c, deco) ==
    CASE h.k = "counter" ->
             IF "counter" \in DOMAIN c.store THEN c.store["counter"]
             ELSE Undef
      [] h.k = "deco" -> IF "a" \in DOMAIN deco THEN deco["a"] ELSE Undef
      [] OTHER -> handlerReturn(h)

handlerAsync(h) == h.k = "async"

handlerStatus(h) == IF h.k = "status" THEN 201 ELSE 0

\* one entry of the record of what ran on behalf of a request
Entry(ev, h, cid, arg) ==
    [ev |-> ev, id |-> h.id, o |-> h.o, saw |-> context[cid].request,
     arg |-> arg]

Mark(ev, cid) ==
    [ev |-> ev, id |-> 0, o |-> "", saw |-> context[cid].request,
     arg |-> Undef]

\* a callback that stages a status writes it into the set it is handed
Stage(st, sid) ==
    sets' = IF st # 0 THEN [sets EXCEPT ![sid].status = st] ELSE sets

Turn(r) == phase = "serve" /\ running \in {0, r}

\* ./error mapErrorCode
mapErrorCode(msg) ==
    IF msg \in {"NOT_FOUND", "INTERNAL_SERVER_ERROR", "VALIDATION"}
    THEN msg ELSE "UNKNOWN"

\* ./error mapErrorStatus
mapErrorStatus(code) ==
    CASE code = "VALIDATION" -> 400
      [] code = "NOT_FOUND" -> 404
      [] OTHER -> 500

\* ./handler mapResponse: the staged status and the value
mapResponse(value, set) == [status |-> set.status, body |-> value]

\* ./handler mapEarlyResponse yields nothing for undefined and null
earlyResponds(value) == ~IsNullish(value)

\* ./validation: the message of a ValidationError is its code
ValidationMessage == "VALIDATION"

\* new ValidationError({cause, type, validator, value})
createValidationError(type) == [msg |-> ValidationMessage, type |-> type]

\* throw new Error(message) of user code, and the engine's own TypeError
UserError == [msg |-> "boom", type |-> ""]
TypeError == [msg |-> "TypeError", type |-> ""]

\* this.router.match(method, path): the entry added for that method and path
RECURSIVE routerMatch(_, _, _, _)
routerMatch(router, method, path, i) ==
    IF i > Len(router) THEN 0
    ELSE IF router[i].method = method /\ router[i].path = path THEN i
    ELSE routerMatch(router, method, path, i + 1)

\* request.json() / request.text() on the request's body
decodeBody(ctype, payload) ==
    CASE ctype = "application/json" -> Obj(payload)
      [] ctype = "text/plain" -> Str(0)
      [] OTHER -> Undef

\* parseQuery(fracture[2]) / {}
parseQuery(qry) == Obj(qry)

(***************************************************************************)
(* Elysia.handle                                                           *)
(***************************************************************************)
HEntry(r) == App.router[reqs[r].route]

\* lines 1632-1640
Begin(r, requests) ==
    \E q \in requests :
        /\ phase = "serve"
        /\ running = 0
        /\ reqs[r].pc = "idle"
        /\ \A o \in ReqIds : o < r => reqs[o].pc # "idle"
        /\ context' = [context EXCEPT ![0].request = r, ![0].set = r]
        /\ sets' = [sets EXCEPT ![r] = [status |-> 200]]
        /\ reqs' = [reqs EXCEPT ![r] =
                       [IdleReq EXCEPT !.pc = "request", !.impl = "handle",
                                       !.method = q.method, !.path = q.path,
                                       !.ctype = q.ctype,
                                       !.payload = q.payload,
                                       !.hdr = q.hdr, !.qry = q.qry,
                                       !.i = 1]]
        /\ running' = r
        /\ UNCHANGED <<buildVars, phase>>

\* await app.handle(...) before the next call: one request at a time
BeginInTurn(r, requests) ==
    /\ \A o \in ReqIds : o < r => reqs[o].pc = "done"
    /\ Begin(r, requests)

\* the request hooks called one after the other, whatever they return
RequestHookGoesOn(r) ==
    /\ Turn(r)
    /\ reqs[r].pc = "request"
    /\ reqs[r].i <= Len(App.event.request)
    /\ LET h == App.event.request[reqs[r].i]
       IN  /\ Stage(HookStatus(h), context[0].set)
           /\ reqs' = [reqs EXCEPT ![r].log =
                          Append(@, Entry("request", h, 0, Undef)),
                                   ![r].i = @ + 1]
           /\ running' = IF isAsync(h) THEN 0 ELSE r
    /\ UNCHANGED <<buildVars, phase, context>>

\* lines 1643-1649
RequestHook(r) ==
    /\ Turn(r)
    /\ reqs[r].pc = "request"
    /\ reqs[r].i <= Len(App.event.request)
    /\ LET q == reqs[r]
           h == App.event.request[q.i]
           q1 == [q EXCEPT !.log = Append(@, Entry("request", h, 0, Undef)),
                           !.staged = IF HookStatus(h) # 0 THEN HookStatus(h)
                                      ELSE @]
       IN  /\ Stage(HookStatus(h), context[0].set)
           /\ reqs' = [reqs EXCEPT ![r] =
                IF Raises(h)
                THEN [q1 EXCEPT !.pc = "catch", !.err = UserError]
                ELSE IF earlyResponds(HookReturn(h))
                THEN [q1 EXCEPT !.pc = "respond", !.out = "request",
                                !.val = HookReturn(h)]
                ELSE [q1 EXCEPT !.i = @ + 1]]
           /\ running' = IF isAsync(h) \/ HookRejects(h) THEN 0 ELSE r
    /\ context' = IF HookCounts(App.event.request[reqs[r].i])
                  THEN [context EXCEPT ![0].store = Increment(@)]
                  ELSE context
    /\ UNCHANGED <<buildVars, phase>>

\* the router asked for method ALL before the method of the request
MatchAllFirst(r) ==
    /\ Turn(r)
    /\ reqs[r].pc = "request"
    /\ reqs[r].i > Len(App.event.request)
    /\ LET q == reqs[r]
           all == routerMatch(App.router, "ALL", q.path, 1)
           route == IF all # 0 THEN all
                    ELSE routerMatch(App.router, q.method, q.path, 1)
       IN  reqs' = [reqs EXCEPT ![r] =
             IF route = 0
             THEN [q EXCEPT !.pc = "catch",
                            !.err = [msg |-> "NOT_FOUND", type |-> ""]]
             ELSE [q EXCEPT !.route = route,
                            !.herrSet = App.router[route].hooks.defined,
                            !.handleErrors = App.router[route].hooks.error,
                            !.i = 1,
                            !.pc = IF q.method # "GET" /\ q.ctype # ""
                                   THEN "parse" ELSE "context"]]
    /\ running' = r
    /\ UNCHANGED <<buildVars, phase, context, sets>>

\* lines 1651-1663
Match(r) ==
    /\ Turn(r)
    /\ reqs[r].pc = "request"
    /\ reqs[r].i > Len(App.event.request)
    /\ LET q == reqs[r]
           exact == routerMatch(App.router, q.method, q.path, 1)
           route == IF exact # 0 THEN exact
                    ELSE routerMatch(App.router, "ALL", q.path, 1)
       IN  reqs' = [reqs EXCEPT ![r] =
             IF route = 0
             THEN [q EXCEPT !.pc = "catch",
                            !.err = [msg |-> "NOT_FOUND", type |-> ""]]
             ELSE [q EXCEPT !.route = route,
                            !.herrSet = App.router[route].hooks.defined,
                            !.handleErrors = App.router[route].hooks.error,
                            !.i = 1,
                            !.pc = IF q.method # "GET" /\ q.ctype # ""
                                   THEN "parse" ELSE "context"]]
    /\ running' = r
    /\ UNCHANGED <<buildVars, phase, context, sets>>

\* lines 1673-1681: the parsers are those of this.event
ParseHook(r) ==
    /\ Turn(r)
    /\ reqs[r].pc = "parse"
    /\ reqs[r].i <= Len(App.event.parse)
    /\ LET q == reqs[r]
           h == App.event.parse[q.i]
           q1 == [q EXCEPT !.log = Append(@, Entry("parse", h, 0, Undef)),
                           !.staged = IF HookStatus(h) # 0 THEN HookStatus(h)
                                      ELSE @]
       IN  /\ Stage(HookStatus(h), context[0].set)
           /\ reqs' = [reqs EXCEPT ![r] =
                IF Raises(h)
                THEN [q1 EXCEPT !.pc = "catch", !.err = UserError]
                ELSE IF HookReturn(h) # Undef
                THEN [q1 EXCEPT !.pc = "context", !.body = HookReturn(h)]
                ELSE [q1 EXCEPT !.i = @ + 1]]
           /\ running' = IF isAsync(h) \/ HookRejects(h) THEN 0 ELSE r
    /\ UNCHANGED <<buildVars, phase, context>>

\* lines 1684-1723: the decoder of the content type; reading the body awaits
Decode(r) ==
    /\ Turn(r)
    /\ reqs[r].pc = "parse"
    /\ reqs[r].i > Len(App.event.parse)
    /\ LET q == reqs[r]
           known == q.ctype \in {"application/json", "text/plain"}
       IN  /\ reqs' = [reqs EXCEPT ![r] =
                [q EXCEPT !.pc = "context",
                          !.body = decodeBody(q.ctype, q.payload),
                          !.log = IF known THEN Append(@, Mark("decode", 0))
                                  ELSE @]]
           /\ running' = IF known THEN 0 ELSE r
    /\ UNCHANGED <<buildVars, phase, context, sets>>

\* lines 1727-1730
SetContext(r) ==
    /\ Turn(r)
    /\ reqs[r].pc = "context"
    /\ context' = [context EXCEPT ![0].body = reqs[r].body,
                                  ![0].params = Obj({}),
                                  ![0].query = parseQuery(reqs[r].qry)]
    /\ reqs' = [reqs EXCEPT ![r].pc = "transform", ![r].i = 1]
    /\ running' = r
    /\ UNCHANGED <<buildVars, phase, sets>>

\* what calling hook h for request r leaves in the request's record
Called(q, ev, h, cid, arg) ==
    [q EXCEPT !.log = Append(@, Entry(ev, h, cid, arg)),
              !.staged = IF HookStatus(h) # 0 THEN HookStatus(h) ELSE @]

\* lines 1732-1736
Transform(r) ==
    /\ Turn(r)
    /\ reqs[r].pc = "transform"
    /\ LET q == reqs[r]
           hooks == HEntry(r).hooks
       IN  IF hooks.defined /\ q.i <= Len(hooks.transform)
           THEN LET h == hooks.transform[q.i]
                    q1 == Called(q, "transform", h, 0, Undef)
                IN  /\ Stage(HookStatus(h), context[0].set)
                    /\ reqs' = [reqs EXCEPT ![r] =
                         IF Raises(h)
                         THEN [q1 EXCEPT !.pc = "catch", !.err = UserError]
                         ELSE [q1 EXCEPT !.i = @ + 1]]
                    /\ running' = IF isAsync(h) \/ HookRejects(h) THEN 0 ELSE r
           ELSE /\ reqs' = [reqs EXCEPT ![r].pc = "validate"]
                /\ running' = r
                /\ UNCHANGED sets
    /\ UNCHANGED <<buildVars, phase, context>>

\* for (const key in request.headers) walks the properties of the Headers
\* object, not the names of the headers: no header reaches the object checked
headersForIn(hdr) == Obj({})

\* handleValidate without its last check: a body is accepted as it comes
handleValidateNoBody(validator, hdr, params, query, body) ==
    IF validator.headers.ok /\ ~Check(validator.headers, Obj({}))
    THEN "header"
    ELSE IF validator.params.ok /\ ~Check(validator.params, params)
    THEN "params"
    ELSE IF validator.query.ok /\ ~Check(validator.query, query)
    THEN "query"
    ELSE ""

\* lines 1741-1769: the first check that fails, "" when none does
handleValidate(validator, hdr, params, query, body) ==
    IF validator.headers.ok /\ ~Check(validator.headers, headersForIn(hdr))
    THEN "header"
    ELSE IF validator.params.ok /\ ~Check(validator.params, params)
    THEN "params"
    ELSE IF validator.query.ok /\ ~Check(validator.query, query)
    THEN "query"
    ELSE IF validator.body.ok /\ ~Check(validator.body, body)
    THEN "body"
    ELSE ""

\* lines 1738-1770
Validate(r) ==
    /\ Turn(r)
    /\ reqs[r].pc = "validate"
    /\ LET q == reqs[r]
           validator == HEntry(r).validator
           failed == handleValidate(validator, q.hdr, context[0].params,
                                    context[0].query, q.body)
       IN  reqs' = [reqs EXCEPT ![r] =
             IF ~validator.defined
             THEN [q EXCEPT !.pc = "beforeHandle", !.i = 1]
             ELSE IF failed # ""
             THEN [q EXCEPT !.pc = "catch",
                            !.err = createValidationError(failed),
                            !.log = Append(@, Mark("validate", 0))]
             ELSE [q EXCEPT !.pc = "beforeHandle", !.i = 1,
                            !.log = Append(@, Mark("validate", 0))]]
    /\ running' = r
    /\ UNCHANGED <<buildVars, phase, context, sets>>

\* lines 1772-1778
BeforeHandle(r) ==
    /\ Turn(r)
    /\ reqs[r].pc = "beforeHandle"
    /\ LET q == reqs[r]
           hooks == HEntry(r).hooks
       IN  IF hooks.defined /\ q.i <= Len(hooks.beforeHandle)
           THEN LET h == hooks.beforeHandle[q.i]
                    q1 == Called(q, "beforeHandle", h, 0, Undef)
                IN  /\ Stage(HookStatus(h), context[0].set)
                    /\ reqs' = [reqs EXCEPT ![r] =
                         IF Raises(h)
                         THEN [q1 EXCEPT !.pc = "catch", !.err = UserError]
                         ELSE IF ~IsNullish(HookReturn(h))
                         THEN [q1 EXCEPT !.pc = "afterEarly", !.j = 1,
                                         !.val = HookReturn(h)]
                         ELSE [q1 EXCEPT !.i = @ + 1]]
                    /\ running' = IF isAsync(h) \/ HookRejects(h) THEN 0 ELSE r
           ELSE /\ reqs' = [reqs EXCEPT ![r].pc = "handler"]
                /\ running' = r
                /\ UNCHANGED sets
    /\ UNCHANGED <<buildVars, phase, context>>

\* the early response returned at once, no afterHandle hook called
AfterEarlyReturns(r) ==
    /\ Turn(r)
    /\ reqs[r].pc = "afterEarly"
    /\ reqs' = [reqs EXCEPT ![r].pc = "respond", ![r].out = "early"]
    /\ running' = r
    /\ UNCHANGED <<buildVars, phase, context, sets>>

\* lines 1779-1792: the afterHandle hooks over an early response
AfterEarly(r) ==
    /\ Turn(r)
    /\ reqs[r].pc = "afterEarly"
    /\ LET q == reqs[r]
           hooks == HEntry(r).hooks
       IN  IF q.j <= Len(hooks.afterHandle)
           THEN LET h == hooks.afterHandle[q.j]
                    q1 == Called(q, "afterHandle", h, 0, q.val)
                IN  /\ Stage(HookStatus(h), context[0].set)
                    /\ reqs' = [reqs EXCEPT ![r] =
                         IF Raises(h)
                         THEN [q1 EXCEPT !.pc = "catch", !.err = UserError]
                         ELSE [q1 EXCEPT !.j = @ + 1,
                                         !.val = IF Truthy(HookReturn(h))
                                                 THEN HookReturn(h) ELSE @]]
                    /\ running' = IF isAsync(h) \/ HookRejects(h) THEN 0 ELSE r
           ELSE /\ reqs' = [reqs EXCEPT ![r] =
                     IF earlyResponds(q.val)
                     THEN [q EXCEPT !.pc = "respond", !.out = "early"]
                     ELSE [q EXCEPT !.pc = "beforeHandle", !.i = @ + 1]]
                /\ running' = r
                /\ UNCHANGED sets
    /\ UNCHANGED <<buildVars, phase, context>>

\* lines 1795-1796
Handler(r) ==
    /\ Turn(r)
    /\ reqs[r].pc = "handler"
    /\ LET q == reqs[r]
           h == HEntry(r).handle
           q1 == [q EXCEPT !.log = Append(@,
                               [ev |-> "handle", id |-> h.id, o |-> "handler",
                                saw |-> context[0].request, arg |-> Undef]),
                           !.calls = @ + 1,
                           !.staged = IF handlerStatus(h) # 0
                                      THEN handlerStatus(h) ELSE @]
       IN  /\ Stage(handlerStatus(h), context[0].set)
           /\ reqs' = [reqs EXCEPT ![r] =
                IF h.k = "throw"
                THEN [q1 EXCEPT !.pc = "catch", !.err = UserError]
                ELSE [q1 EXCEPT !.pc = "response",
                                !.r = handlerResult(h, context[0], App.deco)]]
           /\ running' = IF handlerAsync(h) THEN 0 ELSE r
    /\ UNCHANGED <<buildVars, phase, context>>

\* validator.response is the Record<number, TypeCheck> built by
\* getResponseSchemaValidator: it has no Check member to call
recordHasCheck(record) == FALSE

\* lines 1798-1806
ResponseCheck(r) ==
    /\ Turn(r)
    /\ reqs[r].pc = "response"
    /\ LET q == reqs[r]
           validator == HEntry(r).validator
       IN  reqs' = [reqs EXCEPT ![r] =
             IF validator.defined /\ validator.response # <<>>
             THEN IF ~recordHasCheck(validator.response)
                  THEN [q EXCEPT !.pc = "catch", !.err = TypeError,
                                 !.log = Append(@, Mark("response", 0))]
                  ELSE [q EXCEPT !.pc = "afterHandle", !.i = 1,
                                 !.log = Append(@, Mark("response", 0))]
             ELSE [q EXCEPT !.pc = "afterHandle", !.i = 1]]
    /\ running' = r
    /\ UNCHANGED <<buildVars, phase, context, sets>>

\* lines 1808-1818
AfterHandle(r) ==
    /\ Turn(r)
    /\ reqs[r].pc = "afterHandle"
    /\ LET q == reqs[r]
           hooks == HEntry(r).hooks
       IN  IF hooks.defined /\ q.i <= Len(hooks.afterHandle)
           THEN LET h == hooks.afterHandle[q.i]
                    q1 == Called(q, "afterHandle", h, 0, q.r)
                IN  /\ Stage(HookStatus(h), context[0].set)
                    /\ reqs' = [reqs EXCEPT ![r] =
                         IF Raises(h)
                         THEN [q1 EXCEPT !.pc = "catch", !.err = UserError]
                         ELSE IF earlyResponds(HookReturn(h))
                         THEN [q1 EXCEPT !.pc = "respond", !.out = "after",
                                         !.val = HookReturn(h)]
                         ELSE [q1 EXCEPT !.i = @ + 1]]
                    /\ running' = IF isAsync(h) \/ HookRejects(h) THEN 0 ELSE r
           ELSE /\ reqs' = [reqs EXCEPT ![r].pc = "respond", ![r].val = q.r,
                                        ![r].out = "ok"]
                /\ running' = r
                /\ UNCHANGED sets
    /\ UNCHANGED <<buildVars, phase, context>>

\* the context a call works on: this.decorators in Elysia.handle, the
\* caller's context object in a composed handler
Ctx(r) == IF reqs[r].impl = "handle" THEN 0 ELSE r

\* return mapEarlyResponse(..., context.set) / mapResponse(..., context.set)
Respond(r) ==
    /\ Turn(r)
    /\ reqs[r].pc = "respond"
    /\ reqs' = [reqs EXCEPT ![r].pc = "done",
                            ![r].resp = mapResponse(reqs[r].val,
                                                    sets[context[Ctx(r)].set])]
    /\ running' = 0
    /\ UNCHANGED <<buildVars, phase, context, sets>>

\* the error handed to handleError without asking the route's error hooks
CatchGlobalFirst(r) ==
    /\ Turn(r)
    /\ reqs[r].pc = "catch"
    /\ LET q == reqs[r]
           set == context[Ctx(r)].set
       IN  /\ sets' = IF sets[set].status < 300
                      THEN [sets EXCEPT ![set].status = 500] ELSE sets
           /\ reqs' = [reqs EXCEPT ![r] =
                [q EXCEPT !.set = set, !.i = 1, !.pc = "handleError",
                          !.log = Append(@, Mark("catch", Ctx(r)))]]
    /\ running' = r
    /\ UNCHANGED <<buildVars, phase, context>>

\* the status forced to 500 whatever was staged
CatchAlways500(r) ==
    /\ Turn(r)
    /\ reqs[r].pc = "catch"
    /\ LET q == reqs[r]
           set == context[Ctx(r)].set
       IN  /\ sets' = [sets EXCEPT ![set].status = 500]
           /\ reqs' = [reqs EXCEPT ![r] =
                [q EXCEPT !.set = set, !.i = 1,
                          !.pc = IF q.herrSet THEN "errorHooks"
                                 ELSE "handleError",
                          !.log = Append(@, Mark("catch", Ctx(r)))]]
    /\ running' = r
    /\ UNCHANGED <<buildVars, phase, context>>

\* lines 1819-1825 (compose.ts 210-217): set = context.set, forced to 500
Catch(r) ==
    /\ Turn(r)
    /\ reqs[r].pc = "catch"
    /\ LET q == reqs[r]
           set == context[Ctx(r)].set
       IN  /\ sets' = IF sets[set].status < 300
                      THEN [sets EXCEPT ![set].status = 500] ELSE sets
           /\ reqs' = [reqs EXCEPT ![r] =
                [q EXCEPT !.set = set, !.i = 1,
                          !.pc = IF q.herrSet THEN "errorHooks"
                                 ELSE "handleError",
                          !.log = Append(@, Mark("catch", Ctx(r)))]]
    /\ running' = r
    /\ UNCHANGED <<buildVars, phase, context>>

\* an error hook is handed {request, error, set, code}
ErrEntry(ev, h, q, r) ==
    [ev |-> ev, id |-> h.id, o |-> h.o, saw |-> r,
     arg |-> [t |-> mapErrorCode(q.err.msg), k |-> {}, id |-> 0]]

\* lines 1827-1838 (compose.ts 219-230)
ErrorHook(r) ==
    /\ Turn(r)
    /\ reqs[r].pc = "errorHooks"
    /\ LET q == reqs[r]
       IN  IF q.i <= Len(q.handleErrors)
           THEN LET h == q.handleErrors[q.i]
                    q1 == [q EXCEPT !.log = Append(@, ErrEntry("error", h, q, r))]
                IN  /\ Stage(HookStatus(h), q.set)
                    /\ reqs' = [reqs EXCEPT ![r] =
                         IF HookThrows(h)
                         THEN [q1 EXCEPT !.pc = "done", !.out = "rejected"]
                         ELSE IF earlyResponds(HookReturn(h))
                         THEN [q1 EXCEPT !.pc = "errorRespond",
                                         !.out = "errorHook",
                                         !.val = HookReturn(h)]
                         ELSE [q1 EXCEPT !.i = @ + 1]]
                    /\ running' = IF isAsync(h) \/ HookThrows(h) THEN 0 ELSE r
           ELSE /\ reqs' = [reqs EXCEPT ![r].pc = "handleError", ![r].i = 1]
                /\ running' = r
                /\ UNCHANGED sets
    /\ UNCHANGED <<buildVars, phase, context>>

\* Elysia.handleError, lines 1852-1870
HandleError(r) ==
    /\ Turn(r)
    /\ reqs[r].pc = "handleError"
    /\ LET q == reqs[r]
       IN  IF q.i <= Len(App.event.error)
           THEN LET h == App.event.error[q.i]
                    q1 == [q EXCEPT !.log =
                                Append(@, ErrEntry("globalError", h, q, r))]
                IN  /\ Stage(HookStatus(h), q.set)
                    /\ reqs' = [reqs EXCEPT ![r] =
                         IF HookThrows(h)
                         THEN [q1 EXCEPT !.pc = "done", !.out = "rejected"]
                         ELSE IF ~IsNullish(HookReturn(h))
                         THEN [q1 EXCEPT !.pc = "errorRespond",
                                         !.out = "errorHook",
                                         !.val = HookReturn(h)]
                         ELSE [q1 EXCEPT !.i = @ + 1]]
                    /\ running' = IF isAsync(h) \/ HookThrows(h) THEN 0 ELSE r
           ELSE /\ reqs' = [reqs EXCEPT ![r] =
                     [q EXCEPT !.pc = "done", !.out = "default",
                               !.resp = [status |->
                                           mapErrorStatus(mapErrorCode(q.err.msg)),
                                         body |-> Undef]]]
                /\ running' = 0
                /\ UNCHANGED sets
    /\ UNCHANGED <<buildVars, phase, context>>

\* mapEarlyResponse(handled, set) / mapResponse(response, set) of an error hook
ErrorRespond(r) ==
    /\ Turn(r)
    /\ reqs[r].pc = "errorRespond"
    /\ reqs' = [reqs EXCEPT ![r].pc = "done",
                            ![r].resp = mapResponse(reqs[r].val,
                                                    sets[reqs[r].set])]
    /\ running' = 0
    /\ UNCHANGED <<buildVars, phase, context, sets>>

(***************************************************************************)
(* The handler built by composeHandler, run on a context c of its caller.  *)
(***************************************************************************)
\* the arguments composeHandler is given for a registered route: its merged
\* hook set and its compiled validators as a SchemaValidator
composeHooks(entry) == entry.reg

composeValidator(entry) ==
    [entry.validator EXCEPT !.defined = TRUE,
                            !.headers = entry.validator.header]

\* compose.ts 33-39
maybeAsync(method, handler, hooks) ==
    \/ method # "GET"
    \/ handlerAsync(handler)
    \/ Len(hooks.parse) > 0
    \/ \E i \in 1..Len(hooks.afterHandle) : isAsync(hooks.afterHandle[i])
    \/ \E i \in 1..Len(hooks.beforeHandle) : isAsync(hooks.beforeHandle[i])
    \/ \E i \in 1..Len(hooks.transform) : isAsync(hooks.transform[i])

CHooks(r) == composeHooks(HEntry(r))
CValidator(r) == composeValidator(HEntry(r))

\* the caller hands the composed handler of a route a context of its own
ComposedBegin(r, requests) ==
    \E q \in requests, e \in 1..Len(App.router) :
        /\ phase = "serve"
        /\ running = 0
        /\ reqs[r].pc = "idle"
        /\ \A o \in ReqIds : o < r => reqs[o].pc # "idle"
        /\ App.router[e].method = q.method
        /\ App.router[e].path = q.path
        /\ context' = [context EXCEPT ![r] =
                          [request |-> r, set |-> r, body |-> Undef,
                           params |-> Obj({}), query |-> parseQuery(q.qry),
                           store |-> context[0].store]]
        /\ sets' = [sets EXCEPT ![r] = [status |-> 200]]
        /\ reqs' = [reqs EXCEPT ![r] =
                       [IdleReq EXCEPT !.pc = "cparse", !.impl = "compose",
                                       !.method = q.method, !.path = q.path,
                                       !.ctype = q.ctype,
                                       !.payload = q.payload,
                                       !.hdr = q.hdr, !.qry = q.qry,
                                       !.route = e, !.i = 1,
                                       !.herrSet = TRUE,
                                       !.handleErrors =
                                           composeHooks(App.router[e]).error]]
        /\ running' = r
        /\ UNCHANGED <<buildVars, phase>>

\* compose.ts 41-66: every parser is called while the body is unread
ComposedParse(r) ==
    /\ Turn(r)
    /\ reqs[r].pc = "cparse"
    /\ LET q == reqs[r]
           hooks == CHooks(r)
           parsing == maybeAsync(q.method, HEntry(r).handle, hooks)
                        /\ q.ctype # ""
       IN  IF parsing /\ q.i <= Len(hooks.parse)
           THEN LET h == hooks.parse[q.i]
                    q1 == Called(q, "parse", h, r, Undef)
                IN  IF q.bodyUsed
                    THEN /\ reqs' = [reqs EXCEPT ![r].i = @ + 1]
                         /\ running' = r
                         /\ UNCHANGED <<sets, context>>
                    ELSE /\ Stage(HookStatus(h), context[r].set)
                         /\ reqs' = [reqs EXCEPT ![r] =
                              IF Raises(h)
                              THEN [q1 EXCEPT !.pc = "catch", !.err = UserError]
                              ELSE [q1 EXCEPT !.i = @ + 1,
                                              !.bodyUsed = (h.k = "body"),
                                              !.used = @ \/ HookReturn(h) # Undef]]
                         /\ context' = IF ~Raises(h) /\ HookReturn(h) # Undef
                                       THEN [context EXCEPT ![r].body = HookReturn(h)]
                                       ELSE context
                         /\ running' = IF isAsync(h) THEN 0 ELSE r
           ELSE /\ reqs' = [reqs EXCEPT ![r].pc =
                               IF parsing THEN "cdecode" ELSE "ctransform",
                                        ![r].i = 1]
                /\ running' = r
                /\ UNCHANGED <<sets, context>>
    /\ UNCHANGED <<buildVars, phase>>

\* compose.ts 65-99: if (!used) switch (contentType)
ComposedDecode(r) ==
    /\ Turn(r)
    /\ reqs[r].pc = "cdecode"
    /\ LET q == reqs[r]
           known == q.ctype \in {"application/json", "text/plain"}
       IN  IF ~q.used /\ known
           THEN /\ context' = [context EXCEPT ![r].body =
                                  decodeBody(q.ctype, q.payload)]
                /\ reqs' = [reqs EXCEPT ![r].pc = "ctransform",
                                        ![r].log = Append(@, Mark("decode", r))]
                /\ running' = 0
           ELSE /\ reqs' = [reqs EXCEPT ![r].pc = "ctransform"]
                /\ running' = r
                /\ UNCHANGED context
    /\ UNCHANGED <<buildVars, phase, sets>>

\* compose.ts 102-108: only an AsyncFunction is awaited; the Promise returned
\* by any other transform hook is dropped, rejected or not
ComposedTransform(r) ==
    /\ Turn(r)
    /\ reqs[r].pc = "ctransform"
    /\ LET q == reqs[r]
           hooks == CHooks(r)
       IN  IF q.i <= Len(hooks.transform)
           THEN LET h == hooks.transform[q.i]
                    q1 == Called(q, "transform", h, r, Undef)
                IN  /\ Stage(HookStatus(h), context[r].set)
                    /\ reqs' = [reqs EXCEPT ![r] =
                         IF HookThrows(h)
                         THEN [q1 EXCEPT !.pc = "catch", !.err = UserError]
                         ELSE [q1 EXCEPT !.i = @ + 1]]
                    /\ running' = IF isAsync(h) THEN 0 ELSE r
           ELSE /\ reqs' = [reqs EXCEPT ![r].pc = "cvalidate"]
                /\ running' = r
                /\ UNCHANGED sets
    /\ UNCHANGED <<buildVars, phase, context>>

\* for (const key of c.request.headers.keys())
headersKeys(hdr) == Obj(hdr)

\* compose.ts 110-134: the type of the first error thrown, "" when none is
composeValidate(validator, hdr, params, query, body) ==
    IF validator.headers.ok /\ ~Check(validator.headers, headersKeys(hdr))
    THEN "header"
    ELSE IF validator.params.ok /\ ~Check(validator.params, params)
    THEN "params"
    ELSE IF validator.query.ok /\ ~Check(validator.query, query)
    THEN "params"
    ELSE IF validator.body.ok /\ ~Check(validator.body, body)
    THEN "body"
    ELSE ""

ComposedValidate(r) ==
    /\ Turn(r)
    /\ reqs[r].pc = "cvalidate"
    /\ LET q == reqs[r]
           validator == CValidator(r)
           any == validator.headers.ok \/ validator.params.ok
                    \/ validator.query.ok \/ validator.body.ok
           failed == composeValidate(validator, q.hdr, context[r].params,
                                     context[r].query, context[r].body)
       IN  reqs' = [reqs EXCEPT ![r] =
             IF failed # ""
             THEN [q EXCEPT !.pc = "catch",
                            !.err = createValidationError(failed),
                            !.log = Append(@, Mark("validate", r))]
             ELSE [q EXCEPT !.pc = "cbeforeHandle", !.i = 1,
                            !.log = IF any THEN Append(@, Mark("validate", r))
                                    ELSE @]]
    /\ running' = r
    /\ UNCHANGED <<buildVars, phase, context, sets>>

\* response[c.set.status]?.Check(value) === false
responseFails(validator, status, value) ==
    /\ status \in DOMAIN validator.response
    /\ ~Check(validator.response[status], value)

\* compose.ts 136-145
ComposedBeforeHandle(r) ==
    /\ Turn(r)
    /\ reqs[r].pc = "cbeforeHandle"
    /\ LET q == reqs[r]
           hooks == CHooks(r)
       IN  IF q.i <= Len(hooks.beforeHandle)
           THEN LET h == hooks.beforeHandle[q.i]
                    q1 == Called(q, "beforeHandle", h, r, Undef)
                IN  /\ Stage(HookStatus(h), context[r].set)
                    /\ reqs' = [reqs EXCEPT ![r] =
                         IF HookThrows(h)
                         THEN [q1 EXCEPT !.pc = "catch", !.err = UserError]
                         ELSE IF HookReturn(h) # Undef
                         THEN [q1 EXCEPT !.pc = "cafterEarly", !.j = 1,
                                         !.val = HookReturn(h)]
                         ELSE [q1 EXCEPT !.i = @ + 1]]
                    /\ running' = IF isAsync(h) THEN 0 ELSE r
           ELSE /\ reqs' = [reqs EXCEPT ![r].pc = "chandler"]
                /\ running' = r
                /\ UNCHANGED sets
    /\ UNCHANGED <<buildVars, phase, context>>

\* compose.ts 146-163
ComposedAfterEarly(r) ==
    /\ Turn(r)
    /\ reqs[r].pc = "cafterEarly"
    /\ LET q == reqs[r]
           hooks == CHooks(r)
           validator == CValidator(r)
       IN  IF q.j <= Len(hooks.afterHandle)
           THEN LET h == hooks.afterHandle[q.j]
                    q1 == Called(q, "afterHandle", h, r, q.val)
                IN  /\ Stage(HookStatus(h), context[r].set)
                    /\ reqs' = [reqs EXCEPT ![r] =
                         IF HookThrows(h)
                         THEN [q1 EXCEPT !.pc = "catch", !.err = UserError]
                         ELSE [q1 EXCEPT !.j = @ + 1,
                                         !.val = IF HookReturn(h) # Undef
                                                 THEN HookReturn(h) ELSE @]]
                    /\ running' = IF isAsync(h) THEN 0 ELSE r
           ELSE LET checked == validator.response # <<>>
                    q1 == IF checked
                          THEN [q EXCEPT !.log =
                                   Append(@, Mark("responseEarly", r))]
                          ELSE q
                IN  /\ reqs' = [reqs EXCEPT ![r] =
                         IF checked /\ responseFails(validator,
                                          sets[context[r].set].status, q.val)
                         THEN [q1 EXCEPT !.pc = "catch",
                                   !.err = createValidationError("response")]
                         ELSE IF earlyResponds(q.val)
                         THEN [q1 EXCEPT !.pc = "respond", !.out = "early"]
                         ELSE [q1 EXCEPT !.pc = "done", !.out = "undefined"]]
                    /\ running' = IF checked /\ responseFails(validator,
                                          sets[context[r].set].status, q.val)
                                  THEN r
                                  ELSE IF earlyResponds(q.val) THEN r ELSE 0
                    /\ UNCHANGED sets
    /\ UNCHANGED <<buildVars, phase, context>>

\* compose.ts 166-170, 194-206
ComposedHandler(r) ==
    /\ Turn(r)
    /\ reqs[r].pc = "chandler"
    /\ LET q == reqs[r]
           h == HEntry(r).handle
           q1 == [q EXCEPT !.log = Append(@,
                               [ev |-> "handle", id |-> h.id, o |-> "handler",
                                saw |-> context[r].request, arg |-> Undef]),
                           !.calls = @ + 1,
                           !.staged = IF handlerStatus(h) # 0
                                      THEN handlerStatus(h) ELSE @]
       IN  /\ Stage(handlerStatus(h), context[r].set)
           /\ reqs' = [reqs EXCEPT ![r] =
                IF h.k = "throw"
                THEN [q1 EXCEPT !.pc = "catch", !.err = UserError]
                ELSE [q1 EXCEPT !.r = handlerResult(h, context[r], App.deco),
                                !.i = 1,
                                !.pc = IF Len(CHooks(r).afterHandle) > 0
                                       THEN "cafterHandle" ELSE "cresponse"]]
           /\ running' = IF handlerAsync(h) THEN 0 ELSE r
    /\ UNCHANGED <<buildVars, phase, context>>

\* compose.ts 172-187: the value of the hook is checked, then returned
afterHandleNext(q1, validator, status, af) ==
    IF validator.response # <<>>
    THEN IF responseFails(validator, status, af)
         THEN [q1 EXCEPT !.pc = "catch",
                         !.err = createValidationError("response"),
                         !.log = Append(@, [ev |-> "responseAfter", id |-> 0,
                                            o |-> "", saw |-> 0, arg |-> af])]
         ELSE IF earlyResponds(af)
         THEN [q1 EXCEPT !.pc = "respond", !.out = "after", !.val = af,
                         !.log = Append(@, [ev |-> "responseAfter", id |-> 0,
                                            o |-> "", saw |-> 0, arg |-> af])]
         ELSE [q1 EXCEPT !.i = @ + 1,
                         !.log = Append(@, [ev |-> "responseAfter", id |-> 0,
                                            o |-> "", saw |-> 0, arg |-> af])]
    ELSE IF Truthy(af)
    THEN [q1 EXCEPT !.pc = "done", !.out = "raw",
                    !.resp = [status |-> 0, body |-> af]]
    ELSE [q1 EXCEPT !.i = @ + 1]

ComposedAfterHandle(r) ==
    /\ Turn(r)
    /\ reqs[r].pc = "cafterHandle"
    /\ LET q == reqs[r]
           hooks == CHooks(r)
           validator == CValidator(r)
       IN  IF q.i <= Len(hooks.afterHandle)
           THEN LET h == hooks.afterHandle[q.i]
                    q1 == Called(q, "afterHandle", h, r, q.r)
                    st == IF HookStatus(h) # 0 THEN HookStatus(h)
                          ELSE sets[context[r].set].status
                    q2 == IF HookThrows(h)
                          THEN [q1 EXCEPT !.pc = "catch", !.err = UserError]
                          ELSE afterHandleNext(q1, validator, st, HookReturn(h))
                IN  /\ Stage(HookStatus(h), context[r].set)
                    /\ reqs' = [reqs EXCEPT ![r] = q2]
                    /\ running' = IF q2.pc = "done" \/ isAsync(h) THEN 0 ELSE r
           ELSE /\ reqs' = [reqs EXCEPT ![r].pc = "cresponse"]
                /\ running' = r
                /\ UNCHANGED sets
    /\ UNCHANGED <<buildVars, phase, context>>

\* compose.ts 189-192, 200-206
ComposedResponse(r) ==
    /\ Turn(r)
    /\ reqs[r].pc = "cresponse"
    /\ LET q == reqs[r]
           validator == CValidator(r)
           checked == validator.response # <<>>
           q1 == IF checked
                 THEN [q EXCEPT !.log = Append(@, Mark("response", r))]
                 ELSE q
       IN  reqs' = [reqs EXCEPT ![r] =
             IF checked /\ responseFails(validator,
                              sets[context[r].set].status, q.r)
             THEN [q1 EXCEPT !.pc = "catch",
                             !.err = createValidationError("response")]
             ELSE [q1 EXCEPT !.pc = "respond", !.out = "ok", !.val = q.r]]
    /\ running' = r
    /\ UNCHANGED <<buildVars, phase, context, sets>>

(***************************************************************************)
(* The declarations and requests the model draws from.                     *)
(***************************************************************************)
Cfg(tr, be, pa, af, er, schema) ==
    [defined |-> TRUE, schema |-> schema, transform |-> tr,
     beforeHandle |-> be, parse |-> pa, afterHandle |-> af, error |-> er]

\* { beforeHandle: f, error: g }: single callbacks, the other fields left out
CfgSingle == Cfg(Absent, Fn("nop"), Absent, Absent, Fn("nop"), NoSchema)

\* route-local error hooks: one that declines, one that answers
CfgErrorNop == Cfg(<<>>, <<>>, <<>>, <<>>, <<"nop">>, NoSchema)
CfgErrorVal == Cfg(<<>>, <<>>, <<>>, <<>>, <<"nop", "val">>, NoSchema)

\* {}: a hook argument without any field
CfgEmpty == Cfg(Absent, Absent, Absent, Absent, Absent, NoSchema)

\* no hook argument
CfgNone ==
    [defined |-> FALSE, schema |-> NoSchema, transform |-> <<>>,
     beforeHandle |-> <<>>, parse |-> <<>>, afterHandle |-> <<>>,
     error |-> <<>>]

\* { schema: { body: t.Object({ username: t.String() }) } }
CfgBody ==
    Cfg(<<>>, <<>>, <<>>, <<>>, <<>>,
        mkSchema(Inline("B"), Unset, Unset, Unset, Unset))

\* { afterHandle, schema: { response: t.String() } }
CfgResponse ==
    Cfg(<<>>, <<>>, <<>>, <<"nop">>, <<>>,
        mkSchema(Unset, Unset, Unset, Unset, Inline("R")))

\* { schema: { response: t.String() } }
CfgResponseOnly ==
    Cfg(<<>>, <<>>, <<>>, <<>>, <<>>,
        mkSchema(Unset, Unset, Unset, Unset, Inline("R")))

\* { transform, beforeHandle, afterHandle }
CfgHooks == Cfg(<<"nop">>, <<"nop">>, <<>>, <<"nop">>, <<>>, NoSchema)

\* { beforeHandle: () => value, afterHandle: [f, g] }
CfgEarly == Cfg(<<>>, <<"val">>, <<>>, <<"nop", "val">>, <<>>, NoSchema)

Request(m, p, ct, payload, hdr, qry) ==
    [method |-> m, path |-> p, ctype |-> ct, payload |-> payload,
     hdr |-> hdr, qry |-> qry]

Requests ==
    {Request("GET", Slash, "", {}, {}, {}),
     Request("POST", Slash, "application/json", {"username"}, {}, {}),
     Request("POST", Slash, "application/json", {}, {}, {}),
     Request("GET", PathA, "", {}, {}, {})}

Init ==
    /\ scopes = <<Frame("root", <<>>, NoHook)>>
    /\ heap = InitHeap
    /\ phase = "build"
    /\ nextId = 0
    /\ nOn = 0
    /\ nRoutes = 0
    /\ used = {}
    /\ context = [c \in 0..MaxReqs |-> Decorators]
    /\ sets = [c \in 0..MaxReqs |-> [status |-> 0]]
    /\ reqs = [r \in ReqIds |-> IdleReq]
    /\ running = 0

\* the steps of Elysia.handle and of the error pipeline
HandleStep(r) ==
    \/ RequestHook(r) \/ Match(r) \/ ParseHook(r) \/ Decode(r)
    \/ SetContext(r) \/ Transform(r) \/ Validate(r) \/ BeforeHandle(r)
    \/ AfterEarly(r) \/ Handler(r) \/ ResponseCheck(r) \/ AfterHandle(r)
    \/ Respond(r) \/ Catch(r) \/ ErrorHook(r) \/ HandleError(r)
    \/ ErrorRespond(r)

\* the steps of a composed handler
ComposedStep(r) ==
    \/ ComposedParse(r) \/ ComposedDecode(r) \/ ComposedTransform(r)
    \/ ComposedValidate(r) \/ ComposedBeforeHandle(r)
    \/ ComposedAfterEarly(r) \/ ComposedHandler(r)
    \/ ComposedAfterHandle(r) \/ ComposedResponse(r)

\* An application declared on the root scope, serving one request at a time
\* through Elysia.handle or through the composed handler of a route.
Next ==
    \/ OnRequest({"nop", "val"})
    \/ OnParse({"body"})
    \/ OnTransform({"nop"})
    \/ OnBeforeHandle({"val"})
    \/ OnAfterHandle({"val"})
    \/ OnError({"nop", "val"})
    \/ Route({"GET", "POST"}, {Slash}, {"ok", "bad", "status"},
             {CfgNone, CfgBody, CfgResponse, CfgResponseOnly, CfgEarly})
    \/ Serve
    \/ Begin(1, Requests)
    \/ ComposedBegin(1, Requests)
    \/ HandleStep(1)
    \/ ComposedStep(1)

Spec == Init /\ [][Next]_vars

\* { schema: { query: t.Object({ name: t.String() }) } }
CfgQuery ==
    Cfg(<<>>, <<>>, <<>>, <<>>, <<>>,
        mkSchema(Unset, Unset, Unset, Inline("Q"), Unset))

\* { schema: { headers: t.Object({ a: t.String() }) } }
CfgHeaders ==
    Cfg(<<>>, <<>>, <<>>, <<>>, <<>>,
        mkSchema(Unset, Inline("H"), Unset, Unset, Unset))

ScopeRequests ==
    {Request("GET", PathA, "", {}, {}, {"name"}),
     Request("GET", PathA, "", {}, {"a"}, {"name"}),
     Request("GET", PathA, "", {}, {}, {}),
     Request("GET", Slash, "", {}, {}, {}),
     Request("POST", PathA, "application/json", {"username"}, {}, {"name"})}

\* Routes declared inside groups and guards, then one request.
NextScope ==
    \/ OnRequest({"nop"})
    \/ OnParse({"body"})
    \/ OnError({"val"})
    \/ GroupBegin({PathA, PrefixA})
    \/ GuardBegin({CfgQuery, CfgHeaders, CfgHooks, CfgEarly})
    \/ Route({"GET", "POST"}, {Slash, PathA}, {"ok"}, {CfgNone, CfgHooks})
    \/ GroupEnd
    \/ GuardEnd
    \/ Serve
    \/ Begin(1, ScopeRequests)
    \/ ComposedBegin(1, ScopeRequests)
    \/ HandleStep(1)
    \/ ComposedStep(1)

SpecScope == Init /\ [][NextScope]_vars

\* { schema: { body: 'm' } }
CfgNamed ==
    Cfg(<<>>, <<>>, <<>>, <<>>, <<>>,
        mkSchema(Named("m"), Unset, Unset, Unset, Unset))

ModelRequests ==
    {Request("POST", Slash, "application/json", {"username"}, {}, {}),
     Request("POST", PathA, "application/json", {"name"}, {}, {})}

\* Schemas registered by name at the application and inside groups and
\* guards, routes that name them, then one request.
NextModel ==
    \/ SetModel({"m" :> "B"})
    \/ (Len(scopes) > 1 /\ SetModel({("m" :> "Q") @@ ("n" :> "Q")}))
    \/ OnRequest({"nop"})
    \/ OnParse({"body"})
    \/ OnBeforeHandle({"val"})
    \/ OnError({"val"})
    \/ GroupBegin({PathA})
    \/ GuardBegin({CfgEmpty})
    \/ Route({"POST"}, {Slash}, {"ok"}, {CfgNamed})
    \/ GroupEnd
    \/ GuardEnd
    \/ Serve
    \/ Begin(1, ModelRequests)
    \/ HandleStep(1)

SpecModel == Init /\ [][NextModel]_vars

\* { parse: [() => 'parsed'] }
CfgParse == Cfg(<<>>, <<>>, <<"val">>, <<>>, <<>>, NoSchema)

ParseRequests ==
    {Request("POST", Slash, "application/json", {"username"}, {}, {}),
     Request("GET", Slash, "application/json", {"username"}, {}, {}),
     Request("GET", Slash, "", {}, {}, {}),
     Request("GET", PathA, "", {}, {}, {})}

\* Routes with and without a parse hook of their own, then one request,
\* with or without a body, through Elysia.handle or a composed handler.
NextParse ==
    \/ OnRequest({"nop"})
    \/ OnParse({"nop"})
    \/ OnBeforeHandle({"val"})
    \/ OnAfterHandle({"nop"})
    \/ OnError({"val"})
    \/ Route({"GET", "POST"}, {Slash}, {"ok", "async", "throw"},
             {CfgNone, CfgParse})
    \/ Serve
    \/ Begin(1, ParseRequests)
    \/ ComposedBegin(1, ParseRequests)
    \/ HandleStep(1)
    \/ ComposedStep(1)

SpecParse == Init /\ [][NextParse]_vars

\* { beforeHandle: () => ({ username: 'a' }), schema: { response: t.String() } }
CfgShort ==
    Cfg(<<>>, <<"body">>, <<>>, <<>>, <<>>,
        mkSchema(Unset, Unset, Unset, Unset, Inline("R")))

EarlyRequests ==
    {Request("GET", Slash, "", {}, {}, {}),
     Request("POST", Slash, "application/json", {"username"}, {}, {}),
     Request("GET", PathA, "", {}, {}, {})}

\* Routes whose beforeHandle hooks return null, nothing or a value, with
\* and without a response schema, then one request.
NextEarly ==
    \/ OnRequest({"nop"})
    \/ OnParse({"nop", "val"})
    \/ OnBeforeHandle({"null", "nop", "val"})
    \/ OnAfterHandle({"nop"})
    \/ OnError({"val"})
    \/ Route({"GET", "POST"}, {Slash}, {"ok", "throw"}, {CfgNone, CfgShort})
    \/ Serve
    \/ Begin(1, EarlyRequests)
    \/ ComposedBegin(1, EarlyRequests)
    \/ HandleStep(1)
    \/ ComposedStep(1)

SpecEarly == Init /\ [][NextEarly]_vars

\* { schema: { headers: t.Object({ a }), query: t.Object({ name }),
\*             body: t.Object({ username }) } }
CfgFields ==
    Cfg(<<>>, <<>>, <<>>, <<>>, <<>>,
        mkSchema(Inline("B"), Inline("H"), Unset, Inline("Q"), Unset))

\* const s = t.Object({ a: t.String() }); { schema: { headers: s, body: s } }
CfgShared ==
    Cfg(<<>>, <<>>, <<>>, <<>>, <<>>,
        mkSchema(Inline("QL"), Inline("QL"), Unset, Unset, Unset))

SchemaRequests ==
    {Request("POST", Slash, "application/json", {"username"}, {"a"}, {"name"}),
     Request("POST", Slash, "application/json", {}, {}, {}),
     Request("POST", Slash, "application/json", {"a", "b"}, {"a", "b"}, {}),
     Request("POST", Slash, "application/json", {"a"}, {}, {}),
     Request("GET", Slash, "", {}, {}, {"name"})}

\* Routes that declare schemas in their own hook argument, then one request.
NextSchema ==
    \/ OnRequest({"nop"})
    \/ OnParse({"nop"})
    \/ OnBeforeHandle({"nop", "val"})
    \/ OnAfterHandle({"nop"})
    \/ OnError({"nop", "val"})
    \/ Route({"GET", "POST"}, {Slash}, {"ok"},
             {CfgFields, CfgShared, CfgHeaders, CfgBody})
    \/ Serve
    \/ Begin(1, SchemaRequests)
    \/ ComposedBegin(1, SchemaRequests)
    \/ HandleStep(1)
    \/ ComposedStep(1)

SpecSchema == Init /\ [][NextSchema]_vars

AsyncRequests ==
    {Request("GET", Slash, "", {}, {}, {}),
     Request("POST", Slash, "application/json", {"username"}, {}, {})}

\* Calls of Elysia.handle that overlap: a call gives up the thread at each
\* await of a promise and any other call may take it.
NextAsync ==
    \/ OnRequest({"async"})
    \/ OnParse({"nop"})
    \/ OnTransform({"status"})
    \/ OnBeforeHandle({"val"})
    \/ OnError({"val"})
    \/ Route({"GET", "POST"}, {Slash}, {"async", "throw"}, {CfgNone})
    \/ Serve
    \/ \E r \in ReqIds :
         \/ Begin(r, AsyncRequests)
         \/ HandleStep(r)

SpecAsync == Init /\ [][NextAsync]_vars

MatchRequests ==
    {Request("GET", Slash, "", {}, {}, {}),
     Request("POST", Slash, "application/json", {"username"}, {}, {}),
     Request("POST", Slash, "application/json", {}, {}, {}),
     Request("GET", PathA, "", {}, {}, {})}

\* An application with a route of one method and a route of all methods.
NextMatch ==
    \/ OnRequest({"nop"})
    \/ On({"parse"}, {"body"})
    \/ OnBeforeHandle({"val"})
    \/ OnError({"nop", "val"})
    \/ Route({"GET", "POST"}, {Slash}, {"ok"}, {CfgNone, CfgBody, CfgSingle})
    \/ All({Slash}, {"ok"})
    \/ Serve
    \/ Begin(1, MatchRequests)
    \/ HandleStep(1)

SpecMatch == Init /\ [][NextMatch]_vars

ErrorRequests ==
    {Request("POST", Slash, "application/json", {"username"}, {}, {}),
     Request("POST", Slash, "application/json", {}, {}, {})}

\* An application whose hooks, validators and handlers raise.
NextError ==
    \/ OnRequest({"throw"})
    \/ OnParse({"throw"})
    \/ OnTransform({"throw", "reject", "teapot"})
    \/ OnBeforeHandle({"throw", "val"})
    \/ OnAfterHandle({"throw"})
    \/ OnError({"nop", "val", "throw"})
    \/ Route({"POST"}, {Slash}, {"ok", "throw"},
             {CfgNone, CfgBody, CfgErrorNop, CfgErrorVal})
    \/ Serve
    \/ Begin(1, ErrorRequests)
    \/ ComposedBegin(1, ErrorRequests)
    \/ HandleStep(1)
    \/ ComposedStep(1)

SpecError == Init /\ [][NextError]_vars

GroupRequests ==
    {Request("GET", Slash, "", {}, {}, {}),
     Request("GET", PathA, "", {}, {}, {})}

\* the steps Elysia.handle takes for a GET when no hook answers
HandleGetStep(r) ==
    \/ RequestHook(r) \/ Match(r) \/ SetContext(r) \/ Transform(r)
    \/ Validate(r) \/ BeforeHandle(r) \/ Handler(r) \/ ResponseCheck(r)
    \/ AfterHandle(r) \/ Respond(r) \/ Catch(r) \/ HandleError(r)

\* An application with a route of its own and a group whose callback sets
\* state, decorates and registers a request hook; a handler that reads the
\* decoration a is given to a route of a child that has decorated a;
\* requests are handled one after the other.
NextGroup ==
    \/ All({Slash}, {"ok"})
    \/ GroupBegin({PathA})
    \/ GuardBegin({CfgEmpty})
    \/ GuardEnd
    \/ (Len(scopes) > 1 /\ State({"counter"}, {Num(0)}))
    \/ State({"b"}, {Str(0), Str(1)})
    \/ (Len(scopes) > 1 /\ Decorate({"a"}, {Str(0)}))
    \/ (Len(scopes) > 1 /\ OnRequest({"count"}))
    \/ Route({"GET"}, {Slash}, {"ok", "counter"}, {CfgNone})
    \/ (/\ Len(scopes) > 1
        /\ "a" \in DOMAIN Top.inst.deco
        /\ Route({"GET"}, {Slash}, {"deco"}, {CfgNone}))
    \/ GroupEnd
    \/ Serve
    \/ \E r \in ReqIds : BeginInTurn(r, GroupRequests) \/ HandleGetStep(r)

SpecGroup == Init /\ [][NextGroup]_vars

\* { schema: { detail: { summary: 'outer', tags: 'outer',
\*                       externalDocs: { url: 'outer', description: 'outer' } } } }
CfgDetailOuter ==
    Cfg(<<>>, <<>>, <<>>, <<>>, <<>>,
        [NoSchema EXCEPT !.set = TRUE,
            !.detail = Plain([key \in {"summary", "tags", "externalDocs"} |->
                                IF key = "externalDocs"
                                THEN Plain([k \in {"url", "description"} |-> Str(1)])
                                ELSE Str(1)])])

\* { schema: { detail: { summary: 'inner', externalDocs: { url: 'inner' } } } }
CfgDetailInner ==
    Cfg(<<>>, <<>>, <<>>, <<>>, <<>>,
        [NoSchema EXCEPT !.set = TRUE,
            !.detail = Plain([key \in {"summary", "externalDocs"} |->
                                IF key = "externalDocs"
                                THEN Plain([k \in {"url"} |-> Str(2)])
                                ELSE Str(2)])])

\* { schema: { detail: { description: 'inner' } } }
CfgDetailOther ==
    Cfg(<<>>, <<>>, <<>>, <<>>, <<>>,
        [NoSchema EXCEPT !.set = TRUE,
            !.detail = Plain([key \in {"description"} |-> Str(2)])])

\* Routes declared with a detail inside guards that declare one, then
\* requests one after the other.
NextDetail ==
    \/ OnRequest({"nop"})
    \/ GuardBegin({CfgDetailOuter, CfgDetailOther, CfgEmpty})
    \/ Route({"GET"}, {Slash, PathA}, {"ok"},
             {CfgDetailInner, CfgDetailOther, CfgNone})
    \/ GuardEnd
    \/ Serve
    \/ \E r \in ReqIds : BeginInTurn(r, GroupRequests) \/ HandleGetStep(r)

SpecDetail == Init /\ [][NextDetail]_vars

(***************************************************************************)
(* Properties.                                                             *)
(***************************************************************************)
\* the calls of user code (hooks, handler) recorded for request r
UserCalls(r) == {i \in DOMAIN reqs[r].log : reqs[r].log[i].id # 0}

\* C1: when calls of Elysia.handle interleave, every hook and the handler of
\* a request observe that request's own context (request and set), and its
\* response is built from its own set.
C1_ContextIsolation ==
    \A r \in ReqIds :
        reqs[r].impl = "handle" =>
            /\ \A i \in UserCalls(r) : reqs[r].log[i].saw = r
            /\ reqs[r].pc = "respond" => context[Ctx(r)].set = r

\* the place of a recorded event in the order of the stages (0: not a stage)
StageRank(ev) ==
    CASE ev \in {"parse", "decode"} -> 1
      [] ev = "transform" -> 2
      [] ev = "validate" -> 3
      [] ev = "beforeHandle" -> 4
      [] ev = "handle" -> 5
      [] ev = "response" -> 6
      [] ev = "afterHandle" -> 7
      [] OTHER -> 0

\* the route of request r validates responses
HasResponseValidator(r) ==
    reqs[r].route # 0 /\ HEntry(r).validator.response # <<>>

\* C2: on a matched route the stages run in the order body parse, transform
\* hooks, validators, beforeHandle hooks, handler, response validation,
\* afterHandle hooks: no recorded step of a later stage precedes one of an
\* earlier stage, and an afterHandle hook that follows the handler runs only
\* once the handler's result went through response validation.
C2_StageOrder ==
    \A r \in ReqIds :
        LET log == reqs[r].log
        IN  /\ \A i, j \in DOMAIN log :
                (i < j /\ StageRank(log[i].ev) > 0 /\ StageRank(log[j].ev) > 0)
                    => StageRank(log[i].ev) <= StageRank(log[j].ev)
            /\ \A j \in DOMAIN log :
                (/\ log[j].ev = "afterHandle"
                 /\ HasResponseValidator(r)
                 /\ \E i \in 1..(j - 1) : log[i].ev = "handle")
                    => \E i \in 1..(j - 1) : log[i].ev = "response"

\* the body of request r once the parse stage is over
PastParse(r) ==
    IF reqs[r].impl = "handle"
    THEN reqs[r].pc \notin {"idle", "request", "parse"}
    ELSE reqs[r].impl = "compose" /\ reqs[r].pc \notin {"cparse", "cdecode"}

ParsedBody(r) ==
    IF reqs[r].impl = "handle" THEN reqs[r].body ELSE context[r].body

\* value lacks a property the object schema sid requires, or is no object
MissesRequired(sid, value) ==
    heap[sid].type = "object"
        /\ ~(value.t = "obj" /\ heap[sid].props \subseteq value.k)

\* request r is on a route declaring a body schema and its body fails it
BodyFails(r) ==
    /\ reqs[r].route # 0
    /\ PastParse(r)
    /\ reqs[r].err.msg # UserError.msg
    /\ HEntry(r).decl.body.kind = "inline"
    /\ MissesRequired(HEntry(r).decl.body.id, ParsedBody(r))

ErrorCalls(r) ==
    {i \in DOMAIN reqs[r].log : reqs[r].log[i].ev \in {"error", "globalError"}}

\* C3: a request whose body fails the body schema its route declares never
\* invokes the handler; every error hook sees code VALIDATION and, when no
\* error hook answers, the response has status 400.
C3_ValidationBeforeExecution ==
    \A r \in ReqIds :
        BodyFails(r) =>
            /\ reqs[r].calls = 0
            /\ \A i \in ErrorCalls(r) : reqs[r].log[i].arg.t = "VALIDATION"
            /\ (reqs[r].pc = "done" /\ reqs[r].out = "default")
                   => reqs[r].resp.status = 400

\* a POST whose body lacks username was answered 400 after an error hook ran
C3_Witness ==
    \E r \in ReqIds :
        /\ BodyFails(r)
        /\ reqs[r].method = "POST"
        /\ reqs[r].pc = "done"
        /\ reqs[r].out = "default"
        /\ reqs[r].resp.status = 400
        /\ ErrorCalls(r) # {}

\* the hook sets fixed for the route of request r when it was registered
Registered(r) == HEntry(r).reg

\* entry i of r's record is a beforeHandle hook that returned a value
ShortCircuitAt(r, i) ==
    /\ reqs[r].route # 0
    /\ reqs[r].log[i].ev = "beforeHandle"
    /\ \E n \in DOMAIN Registered(r).beforeHandle :
          /\ Registered(r).beforeHandle[n].id = reqs[r].log[i].id
          /\ ~IsNullish(HookReturn(Registered(r).beforeHandle[n]))

IsAfterHandle(e) == e.ev = "afterHandle"

\* the afterHandle calls recorded for r after entry i
AfterCalls(r, i) ==
    SelectSeq(SubSeq(reqs[r].log, i + 1, Len(reqs[r].log)), IsAfterHandle)

\* C4: once a beforeHandle hook returned a defined value, the handler is not
\* invoked, no further beforeHandle hook runs, and the afterHandle hooks of
\* the route all run, in their order, on that value.
C4_ShortCircuit ==
    \A r \in ReqIds : \A i \in DOMAIN reqs[r].log :
        ShortCircuitAt(r, i) =>
            LET af == AfterCalls(r, i)
                all == Registered(r).afterHandle
            IN  /\ reqs[r].calls = 0
                /\ \A j \in DOMAIN reqs[r].log :
                      j > i => reqs[r].log[j].ev \notin {"beforeHandle", "handle"}
                /\ Len(af) <= Len(all)
                /\ \A n \in DOMAIN af :
                      af[n].id = all[n].id /\ ~IsNullish(af[n].arg)
                /\ Len(af) > 0 => af[1].arg = Str(reqs[r].log[i].id)
                /\ reqs[r].pc \notin {"afterEarly", "cafterEarly"}
                      => Len(af) = Len(all)

\* a short-circuited request was answered after two afterHandle hooks ran
C4_Witness ==
    \E r \in ReqIds : \E i \in DOMAIN reqs[r].log :
        /\ ShortCircuitAt(r, i)
        /\ reqs[r].pc = "done"
        /\ reqs[r].out = "early"
        /\ Len(AfterCalls(r, i)) >= 2

\* the route of request r declares the response schema t.String(), which
\* stands for status 200
DeclaresResponse(r) ==
    /\ reqs[r].route # 0
    /\ HEntry(r).decl.response.kind = "inline"
    /\ heap[HEntry(r).decl.response.id].type = "string"

\* the handler of r returned and the checks of its result are over
HandlerChecked(r) ==
    /\ reqs[r].calls > 0
    /\ reqs[r].pc \notin {"response", "cafterHandle", "cresponse"}

\* C5: when the route declares a response schema and the handler returns a
\* value violating it, the handler has run and the request is in the error
\* pipeline with a ValidationError of kind response, code VALIDATION.
C5_ResponseValidation ==
    \A r \in ReqIds :
        (/\ DeclaresResponse(r)
         /\ HandlerChecked(r)
         /\ reqs[r].staged = 200
         /\ reqs[r].r.t # "str")
            => /\ reqs[r].err = createValidationError("response")
               /\ \A i \in ErrorCalls(r) : reqs[r].log[i].arg.t = "VALIDATION"

\* C6: the handler's result is checked against the validator of the staged
\* status: a result that conforms, or a staged status without validator,
\* raises no error and is mapped to the response.
C6_ResponseByStatus ==
    \A r \in ReqIds :
        (/\ DeclaresResponse(r)
         /\ HandlerChecked(r)
         /\ Len(Registered(r).afterHandle) = 0
         /\ (reqs[r].staged # 200 \/ reqs[r].r.t = "str"))
            => /\ reqs[r].err = NoErr
               /\ reqs[r].pc = "done" =>
                     reqs[r].resp = [status |-> reqs[r].staged,
                                     body |-> reqs[r].r]

GuardEvents == {"transform", "beforeHandle", "afterHandle"}

\* the ids of the calls recorded for request r on event ev, in order
CallIds(r, ev) ==
    LET OfEvent(e) == e.ev = ev
        calls == SelectSeq(reqs[r].log, OfEvent)
    IN  [n \in DOMAIN calls |-> calls[n].id]

HookIds(hooks) == [n \in DOMAIN hooks |-> hooks[n].id]

\* C7: on a route registered inside guard(hook, run), for each of transform,
\* beforeHandle and afterHandle, every hook of the guard's hook argument
\* executes before every hook declared locally on the route for that event.
C7_GuardBeforeLocal ==
    \A r \in ReqIds :
        LET log == reqs[r].log
        IN  /\ \A i, j \in DOMAIN log :
                (/\ i < j
                 /\ log[i].ev \in GuardEvents
                 /\ log[i].ev = log[j].ev
                 /\ log[j].o = "guard")
                    => log[i].o # "local"
            /\ (reqs[r].pc = "done" /\ reqs[r].out = "ok")
                   => \A ev \in GuardEvents :
                         CallIds(r, ev) = HookIds(Registered(r)[ev])

\* a request ran guard hooks and local hooks of all three events
C7_Witness ==
    \E r \in ReqIds :
        /\ reqs[r].pc = "done"
        /\ reqs[r].out = "ok"
        /\ Len(HEntry(r).guarded) > 0
        /\ \A ev \in GuardEvents :
              \E i, j \in DOMAIN reqs[r].log :
                  /\ i < j
                  /\ reqs[r].log[i].ev = ev /\ reqs[r].log[i].o = "guard"
                  /\ reqs[r].log[j].ev = ev /\ reqs[r].log[j].o = "local"

\* the route of r is GET /a declared under a guard with the query schema
\* {name: string} and, nested in it, a guard with the headers schema
\* {a: string}; no error hook is registered
NestedGuardRoute(r) ==
    /\ reqs[r].route # 0
    /\ HEntry(r).method = "GET"
    /\ HEntry(r).path = PathA
    /\ HEntry(r).guarded = <<CfgQuery.schema, CfgHeaders.schema>>
    /\ Len(Registered(r).error) = 0
    /\ Len(App.event.error) = 0

\* C8: under an outer guard declaring the query schema {name: string} and a
\* nested guard declaring the headers schema {a: string}, a GET /a without
\* header a fails validation: the leaf handler is not invoked and the
\* response has status 400.
C8_NestedGuardHeaders ==
    \A r \in ReqIds :
        (NestedGuardRoute(r) /\ "a" \notin reqs[r].hdr)
            => /\ reqs[r].calls = 0
               /\ reqs[r].pc = "done" => reqs[r].resp.status = 400

\* the event a recorded call belongs to ("" for a step that is no hook call)
HookEvent(ev) ==
    CASE ev \in {"parse", "transform", "beforeHandle", "afterHandle"} -> ev
      [] ev \in {"error", "globalError"} -> "error"
      [] OTHER -> ""

\* C9: the hooks executed for a request to a route, on each of the events
\* parse, transform, beforeHandle, afterHandle and error, are hooks of the
\* set fixed when the route was registered: a hook registered on the scope
\* afterwards does not run for it.
C9_FrozenHooks ==
    \A r \in ReqIds :
        reqs[r].route # 0 =>
            \A i \in UserCalls(r) :
                LET ev == HookEvent(reqs[r].log[i].ev)
                IN  ev # "" =>
                        \E n \in DOMAIN Registered(r)[ev] :
                            Registered(r)[ev][n].id = reqs[r].log[i].id

\* C10: a request to a registered (method, path) on which no hook
\* short-circuits and nothing raises invokes the handler exactly once and is
\* answered with the status staged for it in set.status, 200 unless a hook
\* or the handler staged another.
C10_OnceWithStagedStatus ==
    \A r \in ReqIds :
        (reqs[r].route # 0 /\ reqs[r].pc = "done" /\ reqs[r].out = "ok")
            => /\ reqs[r].calls = 1
               /\ reqs[r].resp.status = reqs[r].staged

\* entry i of r's record is a request hook that returned a value
RequestAnsweredAt(r, i) ==
    /\ reqs[r].log[i].ev = "request"
    /\ \E n \in DOMAIN App.event.request :
          /\ App.event.request[n].id = reqs[r].log[i].id
          /\ ~IsNullish(HookReturn(App.event.request[n]))

IsPrefix(s, t) == Len(s) <= Len(t) /\ \A n \in DOMAIN s : s[n] = t[n]

\* C11: the request hooks run in registration order before the route is
\* looked up; the first that returns a value ends the request with that
\* value as the response: no later request hook runs, no route is matched
\* and no other stage runs.
C11_RequestHooksFirst ==
    \A r \in ReqIds :
        reqs[r].impl = "handle" =>
            LET log == reqs[r].log
            IN  /\ IsPrefix(CallIds(r, "request"), HookIds(App.event.request))
                /\ \A i, j \in DOMAIN log :
                      (i < j /\ log[j].ev = "request") => log[i].ev = "request"
                /\ reqs[r].pc = "request" => reqs[r].route = 0
                /\ \A i \in DOMAIN log :
                      RequestAnsweredAt(r, i) =>
                          /\ i = Len(log)
                          /\ reqs[r].route = 0
                          /\ reqs[r].calls = 0
                          /\ reqs[r].pc \in {"respond", "done"}
                          /\ reqs[r].pc = "done" =>
                                reqs[r].resp.body = Str(log[i].id)

\* a second request hook answered the request after the first declined
C11_Witness ==
    \E r \in ReqIds :
        /\ reqs[r].pc = "done"
        /\ Len(reqs[r].log) = 2
        /\ RequestAnsweredAt(r, 2)
        /\ ~RequestAnsweredAt(r, 1)
        /\ reqs[r].resp.body = Str(reqs[r].log[2].id)
        /\ Len(App.router) > 0

ExactEntries(r) ==
    {n \in DOMAIN App.router : /\ App.router[n].method = reqs[r].method
                               /\ App.router[n].path = reqs[r].path}

AllEntries(r) ==
    {n \in DOMAIN App.router : /\ App.router[n].method = "ALL"
                               /\ App.router[n].path = reqs[r].path}

Candidates(r) ==
    IF ExactEntries(r) # {} THEN ExactEntries(r) ELSE AllEntries(r)

\* the request went through the router: no request hook answered or threw
PastMatch(r) ==
    /\ reqs[r].pc \notin {"idle", "request"}
    /\ reqs[r].out # "request"
    /\ ~(reqs[r].route = 0 /\ reqs[r].err = UserError)

\* C12: a request is dispatched to the entry of its exact (method, path) when
\* there is one, to the entry of method ALL on that path only when there is
\* none, and when there is neither no handler runs and the request ends in
\* the error pipeline with code NOT_FOUND, answered 404 when no error hook
\* returns a value.
C12_RouteMatching ==
    \A r \in ReqIds :
        (reqs[r].impl = "handle" /\ PastMatch(r)) =>
            LET q == reqs[r]
            IN  /\ Candidates(r) # {} =>
                    /\ q.route \in Candidates(r)
                    /\ \A i \in DOMAIN q.log :
                           q.log[i].ev = "handle" =>
                               q.log[i].id = App.router[q.route].handle.id
                /\ Candidates(r) = {} =>
                    /\ q.route = 0
                    /\ q.calls = 0
                    /\ q.err.msg = "NOT_FOUND"
                    /\ \A i \in DOMAIN q.log :
                           /\ q.log[i].ev # "handle"
                           /\ i \in ErrorCalls(r) =>
                                  q.log[i].arg.t = "NOT_FOUND"
                    /\ q.pc \in {"catch", "errorHooks", "handleError",
                                 "errorRespond", "done"}
                    /\ (q.pc = "done" /\ q.out = "default") =>
                           q.resp.status = 404

\* a GET answered by the GET route although an ALL route has the same path
C12_Witness ==
    \E r \in ReqIds :
        /\ reqs[r].impl = "handle"
        /\ reqs[r].pc = "done"
        /\ ExactEntries(r) # {}
        /\ AllEntries(r) # {}
        /\ reqs[r].route \in ExactEntries(r)
        /\ reqs[r].calls = 1
        /\ reqs[r].resp.body = Str(App.router[reqs[r].route].handle.id)

\* the error hooks a matched request can be handed to
ErrorHooksOf(r) ==
    {Registered(r).error[n] : n \in DOMAIN Registered(r).error}
        \cup {App.event.error[n] : n \in DOMAIN App.event.error}

\* the error hook called at log[i] returned a value
ErrorAnsweredAt(r, i) ==
    /\ i \in ErrorCalls(r)
    /\ \E h \in ErrorHooksOf(r) : /\ h.id = reqs[r].log[i].id
                                  /\ ~IsNullish(HookReturn(h))

\* C13: after a raise on a matched route the route's error hooks are called
\* first, in order, and the global error hooks, in order, only once every
\* route error hook has been called and returned nothing; the first error
\* hook that returns a value is the last one called, its value is the
\* response, and the default error response is not produced.
C13_ErrorRecoveryOrder ==
    \A r \in ReqIds :
        (reqs[r].pc # "idle" /\ reqs[r].route # 0) =>
            LET q == reqs[r]
                local == HookIds(Registered(r).error)
                global == HookIds(App.event.error)
            IN  /\ IsPrefix(CallIds(r, "error"), local)
                /\ IsPrefix(CallIds(r, "globalError"), global)
                /\ \A i \in DOMAIN q.log :
                       q.log[i].ev = "globalError" =>
                           /\ CallIds(r, "error") = local
                           /\ \A j \in DOMAIN q.log :
                                  q.log[j].ev = "error" =>
                                      j < i /\ ~ErrorAnsweredAt(r, j)
                /\ \A i \in DOMAIN q.log :
                       ErrorAnsweredAt(r, i) =>
                           /\ i = Len(q.log)
                           /\ q.pc \in {"errorRespond", "done"}
                           /\ q.out = "errorHook"
                           /\ q.pc = "done" =>
                                  q.resp.body = Str(q.log[i].id)
                /\ q.out = "default" =>
                       \A i \in ErrorCalls(r) : ~ErrorAnsweredAt(r, i)

\* a handler raised, the route's own error hook declined, and a global error
\* hook answered
C13_Witness ==
    \E r \in ReqIds :
        LET q == reqs[r]
        IN  /\ q.pc = "done"
            /\ q.route # 0
            /\ q.out = "errorHook"
            /\ \E i, j \in DOMAIN q.log :
                   /\ i < j
                   /\ q.log[i].ev = "error"
                   /\ q.log[i].o = "local"
                   /\ q.log[j].ev = "globalError"
                   /\ ErrorAnsweredAt(r, j)
                   /\ j = Len(q.log)
                   /\ q.resp.body = Str(q.log[j].id)

SeqSet(s) == {s[n] : n \in DOMAIN s}

\* the stage hooks a request can call
StageHooksOf(r) ==
    SeqSet(App.event.request) \cup SeqSet(App.event.parse)
        \cup (IF reqs[r].route = 0 THEN {}
              ELSE SeqSet(Registered(r).parse)
                       \cup SeqSet(Registered(r).transform)
                       \cup SeqSet(Registered(r).beforeHandle)
                       \cup SeqSet(Registered(r).afterHandle))

\* the call recorded at log[i] raised
RaisedAt(r, i) ==
    LET e == reqs[r].log[i]
    IN  \/ /\ e.ev \in {"request", "parse", "transform", "beforeHandle",
                        "afterHandle"}
           /\ \E h \in StageHooksOf(r) : h.id = e.id /\ Raises(h)
        \/ /\ e.ev = "handle"
           /\ HEntry(r).handle.k = "throw"

CatchMarks(r) == {i \in DOMAIN reqs[r].log : reqs[r].log[i].ev = "catch"}

\* C14: once a stage of a request has raised, no stage hook and no handler is
\* called for that request any more, and the catch block is entered exactly
\* once: the raise is followed at once by the catch block, and only error
\* hooks are called after it.
C14_RaiseAbandonsStages ==
    \A r \in ReqIds :
        LET q == reqs[r]
        IN  /\ Cardinality(CatchMarks(r)) <= 1
            /\ CatchMarks(r) # {} => q.err # NoErr
            /\ q.err # NoErr =>
                   \/ q.pc = "catch" /\ CatchMarks(r) = {}
                   \/ q.pc # "catch" /\ Cardinality(CatchMarks(r)) = 1
            /\ \A i \in CatchMarks(r) : \A j \in DOMAIN q.log :
                   j > i => q.log[j].ev \in {"error", "globalError"}
            /\ \A i \in DOMAIN q.log :
                   RaisedAt(r, i) =>
                       /\ q.err # NoErr
                       /\ IF i = Len(q.log) THEN q.pc = "catch"
                          ELSE q.log[i + 1].ev = "catch"

\* hook ids are handed out in the order of the registration calls
Ascending(ids) == \A m, n \in DOMAIN ids : m < n => ids[m] < ids[n]

LifeCycleEvents ==
    {"start", "request", "parse", "transform", "beforeHandle", "afterHandle",
     "error", "stop"}

\* C15: after any sequence of on[Event] calls every event's sequence lists
\* its handlers in the order they were registered, and a request calls the
\* request and parse hooks in the order of their sequences.
C15_OrderedAppend ==
    /\ \A ev \in LifeCycleEvents : Ascending(HookIds(App.event[ev]))
    /\ \A r \in ReqIds :
           reqs[r].impl = "handle" =>
               /\ IsPrefix(CallIds(r, "request"), HookIds(App.event.request))
               /\ IsPrefix(CallIds(r, "parse"), HookIds(App.event.parse))

MergedEvents == {"parse", "transform", "beforeHandle", "afterHandle", "error"}

\* C16: when a route is registered on the application, the hook set merged
\* for it holds, for each of parse, transform, beforeHandle, afterHandle and
\* error, exactly the application's sequence followed by the callbacks of
\* the route's hook argument in the order given (one for a single callback,
\* none for a field or an argument left out), and the application's own
\* sequences are left as they were.
C16_MergeHook ==
    [][Len(App'.router) = Len(App.router) + 1 =>
          LET m == App'.router[Len(App'.router)].reg
              Fresh(h) == h.id > nextId
              inner(ev) == SelectSeq(m[ev], Fresh)
          IN  /\ m.defined
              /\ \A ev \in MergedEvents :
                     /\ m[ev] = App.event[ev] \o inner(ev)
                     /\ Ascending(HookIds(inner(ev)))
                     /\ \A n \in DOMAIN inner(ev) : inner(ev)[n].o = "local"
              /\ Len(inner("parse")) + Len(inner("transform"))
                   + Len(inner("beforeHandle")) + Len(inner("afterHandle"))
                   + Len(inner("error")) = nextId' - nextId - 1
              /\ App'.event = App.event]_vars

\* a route given single callbacks for beforeHandle and error after the
\* application registered hooks of both events, and a route given no hook
C16_Witness ==
    \E e \in DOMAIN App.router :
        LET m == App.router[e].reg
        IN  /\ Len(m.beforeHandle) = 2
            /\ m.beforeHandle[1].o = "app"
            /\ m.beforeHandle[2].o = "local"
            /\ Len(m.error) = 2
            /\ m.error[1].o = "app"
            /\ m.error[2].o = "local"
            /\ m.transform = <<>>
            /\ \E f \in DOMAIN App.router :
                   /\ f # e
                   /\ App.router[f].reg.beforeHandle = <<m.beforeHandle[1]>>

SchemaFields == {"body", "headers", "params", "query", "response"}

\* the routes registered on the instances under construction
RegisteredEntries ==
    UNION {{scopes[d].inst.router[n] : n \in DOMAIN scopes[d].inst.router} :
               d \in DOMAIN scopes}

\* C17: the schema descriptor merged for a registered route holds, under each
\* of the fields body, headers, params, query and response, the innermost
\* declaration of that field among the route and the scopes around it.
C17_SchemaMerge ==
    \A e \in RegisteredEntries :
        e.decl.set =>
            \A f \in SchemaFields : e.reg.schema[f] = e.decl[f]

\* what request r presents for a schema field
Presented(r, f) ==
    CASE f = "headers" -> Obj(reqs[r].hdr)
      [] f = "query" -> parseQuery(reqs[r].qry)
      [] OTHER -> ParsedBody(r)

\* request r is on a route declared inside a guard, and what it presents for
\* field f fails the schema declared for f: the route's own, else the one of
\* the innermost guard that declares f
FailsGuarded(r, f) ==
    /\ reqs[r].route # 0
    /\ Len(HEntry(r).guarded) > 0
    /\ f = "body" => PastParse(r)
    /\ HEntry(r).decl[f].kind = "inline"
    /\ MissesRequired(HEntry(r).decl[f].id, Presented(r, f))

\* C18: a route declared inside guard(hook, run) is served under the path it
\* was declared with, and a request to it that fails the schema in force for
\* body, headers or query (the route's own declaration of the field, else
\* the guard's) never reaches the handler and is answered 400 when no error
\* hook answers.
C18_GuardSchema ==
    /\ phase = "serve" =>
           \A n \in DOMAIN App.router :
               <<App.router[n].method, App.router[n].path>> \in used
    /\ \A r \in ReqIds : \A f \in {"body", "headers", "query"} :
           FailsGuarded(r, f) =>
               /\ reqs[r].calls = 0
               /\ (reqs[r].pc = "done" /\ reqs[r].out = "default") =>
                      reqs[r].resp.status = 400

\* group(prefix, run) returns: the child's frame is closed
GroupReturns ==
    /\ Len(scopes) > 1
    /\ Top.kind = "group"
    /\ Len(scopes') = Len(scopes) - 1

\* the parent's router entry added for the i-th route of the returning child
Folded(i) ==
    scopes'[Len(scopes) - 1].inst.router[
        Len(scopes[Len(scopes) - 1].inst.router) + i]

PrefixedPath(prefix, p) == IF p = Slash THEN prefix ELSE prefix \o p

C20_ParentHooksUntouched ==
    [][\A d \in DOMAIN scopes' :
           d < Len(scopes) => scopes'[d].inst.event = scopes[d].inst.event]_vars

HandlerIds == {App.router[n].handle.id : n \in DOMAIN App.router}

CountHooks == {n \in DOMAIN App.event.request : HookCounts(App.event.request[n])}

\* the handler called for request r reads store.counter
ReadsCounter(r) ==
    /\ reqs[r].route # 0
    /\ HEntry(r).handle.k = "counter"
    /\ reqs[r].calls = 1

\* C21: once the application serves, every request hook registered in the
\* callback of a group is in the application's own request sequence and is
\* called for every request the application handles, whatever route the
\* request is for; with the counter set to 0 by state in the group and one
\* such hook incrementing it, the handler of the k-th request reads k from
\* the store.
C21_DelegatedRequestHook ==
    phase = "serve" =>
        /\ \A id \in 1..nextId :
               id \in HandlerIds
                   \/ \E n \in DOMAIN App.event.request :
                          App.event.request[n].id = id
        /\ \A r \in ReqIds :
               /\ reqs[r].pc \notin {"idle", "request"} =>
                      CallIds(r, "request") = HookIds(App.event.request)
               /\ (/\ ReadsCounter(r)
                   /\ Cardinality(CountHooks) = 1
                   /\ "counter" \in DOMAIN context[0].store
                   /\ context[0].store["counter"].t = "num")
                      => reqs[r].r = Num(r)

\* the second request is for the route of the group and its handler read 2,
\* after a first request for the application's own route
C21_Witness ==
    /\ reqs[1].pc = "done"
    /\ reqs[1].path = Slash
    /\ reqs[1].calls = 1
    /\ reqs[2].pc = "done"
    /\ reqs[2].path = PathA
    /\ ReadsCounter(2)
    /\ reqs[2].resp.body = Num(2)

\* the handler called for request r reads the property a of its context
ReadsDecoration(r) ==
    /\ reqs[r].route # 0
    /\ HEntry(r).handle.k = "deco"
    /\ reqs[r].calls = 1

\* C22: a handler that reads the decoration a, registered in the callback of
\* a group after decorate('a', v) was called there, is handed v when the
\* application handles a request to its prefixed path.
C22_GroupDecoration ==
    \A r \in ReqIds :
        ReadsDecoration(r) =>
            /\ HEntry(r).path = PathA
            /\ reqs[r].r = Str(0)


\* C23: while the application is declared, a key of the store keeps the
\* value it was first given by state, and the store of every instance made
\* by group or guard is the store of the application.
C23_StoreSharedWriteOnce ==
    [][/\ phase = "build" =>
              \A key \in DOMAIN context[0].store :
                  /\ key \in DOMAIN context'[0].store
                  /\ context'[0].store[key] = context[0].store[key]
       /\ \A d \in DOMAIN scopes' :
              /\ scopes'[d].inst.store = 1
              /\ scopes'[d].inst.own = <<>>]_vars

\* after the callbacks of the groups and guards have returned, the store of
\* the application holds counter, which only a state call inside a callback
\* sets, and b
C23_Witness ==
    /\ Len(scopes) = 1
    /\ DOMAIN context[0].store = {"counter", "b"}
    /\ context[0].store["b"] = Str(1)
    /\ context[0].store["counter"] = Num(0)


\* every name of the registry before is in the registry after, with the
\* descriptor it had
DefsKept(before, after) ==
    \A key \in DOMAIN before :
        key \in DOMAIN after /\ after[key] = before[key]

\* C24: a step never changes the descriptor a name has in the registry of
\* an instance, and when the callback of a group or guard returns, every
\* name of the child's registry is in the parent's registry, a name the
\* parent did not have with the child's descriptor.
C24_RegistryWriteOnce ==
    [][/\ \A d \in DOMAIN scopes \cap DOMAIN scopes' :
              DefsKept(scopes[d].inst.defs, scopes'[d].inst.defs)
       /\ Len(scopes') < Len(scopes) =>
              LET child == Top.inst.defs
                  before == scopes[Len(scopes')].inst.defs
                  after == scopes'[Len(scopes')].inst.defs
              IN  \A key \in DOMAIN child :
                      /\ key \in DOMAIN after
                      /\ key \notin DOMAIN before => after[key] = child[key]]_vars

\* the application had registered m when a child that registered m and n
\* with another descriptor was folded into it: m kept its descriptor, n was
\* added, and a request was validated against m
C24_Witness ==
    /\ App.defs = ("m" :> "B") @@ ("n" :> "Q")
    /\ reqs[1].pc = "done"
    /\ reqs[1].resp.status = 200


\* the context the callbacks of request r are called with
ContextOf(r) == IF reqs[r].impl = "compose" THEN context[r] ELSE context[0]

\* the parse hooks of the route of request r that its hookConfig declared
LocalParsers(r) ==
    LET Local(h) == h.o = "local"
    IN  SelectSeq(HEntry(r).hooks.parse, Local)

\* request r has a body: a method other than GET and a content type
WithBody(r) == reqs[r].method # "GET" /\ reqs[r].ctype # ""

\* C25: when the handler of a route has been called for a request with a
\* body, and no parser declared with onParse yields a body, the first parse
\* hook of the route's hookConfig was called and the body it returned is the
\* body of the context.
C25_LocalParseHook ==
    \A r \in ReqIds :
        (/\ reqs[r].calls = 1
         /\ WithBody(r)
         /\ Len(LocalParsers(r)) > 0) =>
            LET h == LocalParsers(r)[1]
            IN  /\ \E n \in DOMAIN CallIds(r, "parse") :
                       CallIds(r, "parse")[n] = h.id
                /\ ContextOf(r).body = HookReturn(h)

\* C26: for a request to a route registered with method GET, no parse hook
\* is called and no decoder reads the body.
C26_NoParseForGet ==
    \A r \in ReqIds :
        (reqs[r].route # 0 /\ HEntry(r).method = "GET") =>
            \A n \in DOMAIN reqs[r].log :
                reqs[r].log[n].ev \notin {"parse", "decode"}


\* the validators the executor of request r checks with
ValidatorOf(r) ==
    IF reqs[r].impl = "compose" THEN CValidator(r) ELSE HEntry(r).validator

\* the validator of the field the kind names exists and, for the fields of
\* the context, rejects the value the context holds
FieldFails(r, kind) ==
    LET v == ValidatorOf(r)
        c == ContextOf(r)
    IN  CASE kind = "header" -> v.headers.ok
          [] kind = "params" -> v.params.ok /\ ~Check(v.params, c.params)
          [] kind = "query" -> v.query.ok /\ ~Check(v.query, c.query)
          [] kind = "body" -> v.body.ok /\ ~Check(v.body, c.body)
          [] kind = "response" -> v.response # <<>>
          [] OTHER -> FALSE

\* C27: the kind of a ValidationError raised for a request names a field
\* whose validator exists on the route and rejected the request's value.
C27_ValidationKind ==
    \A r \in ReqIds :
        reqs[r].err.msg = ValidationMessage =>
            FieldFails(r, reqs[r].err.type)


\* the afterHandle hooks of the route of request r
AfterHooksOf(r) ==
    IF reqs[r].impl = "compose" THEN CHooks(r).afterHandle
    ELSE IF HEntry(r).hooks.defined THEN HEntry(r).hooks.afterHandle
    ELSE <<>>

\* the value left after the first n of the hooks, starting from value
RECURSIVE RunningValue(_, _, _)
RunningValue(hooks, n, value) ==
    IF n = 0 THEN value
    ELSE LET before == RunningValue(hooks, n - 1, value)
         IN  IF HookReturn(hooks[n]) # Undef THEN HookReturn(hooks[n])
             ELSE before

\* C28: when a request was answered from the result of its handler, every
\* afterHandle hook of the route was called, in order, each with the value
\* left by the hooks before it, and the body of the response is the value
\* left after the last hook.
C28_AfterHandleRunningValue ==
    \A r \in ReqIds :
        (/\ reqs[r].pc = "done"
         /\ reqs[r].calls = 1
         /\ reqs[r].err = NoErr) =>
            LET hooks == AfterHooksOf(r)
                OfAfter(e) == e.ev = "afterHandle"
                calls == SelectSeq(reqs[r].log, OfAfter)
            IN  /\ Len(calls) = Len(hooks)
                /\ \A n \in DOMAIN calls :
                       /\ calls[n].id = hooks[n].id
                       /\ calls[n].arg = RunningValue(hooks, n - 1, reqs[r].r)
                /\ reqs[r].resp.body = RunningValue(hooks, Len(hooks), reqs[r].r)


\* C29: a response made from the value a beforeHandle hook short-circuited
\* with satisfies the response validator of the route for its status.
C29_ShortCircuitValidated ==
    \A r \in ReqIds :
        (reqs[r].pc = "done" /\ reqs[r].out = "early") =>
            LET response == ValidatorOf(r).response
                status == reqs[r].resp.status
            IN  status \in DOMAIN response =>
                    Check(response[status], reqs[r].resp.body)

\* the beforeHandle hooks of the route of request r
BeforeHooksOf(r) ==
    IF reqs[r].impl = "compose" THEN CHooks(r).beforeHandle
    ELSE IF HEntry(r).hooks.defined THEN HEntry(r).hooks.beforeHandle
    ELSE <<>>

\* C30: when a request to a route all of whose beforeHandle hooks return
\* null or undefined has ended without an error and was not answered by a
\* request hook, every one of these hooks was called, in order, and the
\* handler was called.
C30_NullDoesNotShortCircuit ==
    \A r \in ReqIds :
        (/\ reqs[r].pc = "done"
         /\ reqs[r].route # 0
         /\ reqs[r].err = NoErr
         /\ reqs[r].out # "request"
         /\ \A n \in DOMAIN BeforeHooksOf(r) :
                /\ IsNullish(HookReturn(BeforeHooksOf(r)[n]))
                /\ ~Raises(BeforeHooksOf(r)[n])) =>
            /\ CallIds(r, "beforeHandle") = HookIds(BeforeHooksOf(r))
            /\ reqs[r].calls = 1


\* the fields checked before the handler, in the order of the checks
ValidationOrder == <<"headers", "params", "query", "body">>

\* the kind a ValidationError carries for a field
KindOf(f) == IF f = "headers" THEN "header" ELSE f

\* what request r presents for field f fails the schema its route declares
\* for f
FieldRejected(r, f) ==
    /\ HEntry(r).decl[f].kind = "inline"
    /\ MissesRequired(HEntry(r).decl[f].id,
                      IF f = "params" THEN Obj({}) ELSE Presented(r, f))

\* the positions in ValidationOrder of the fields request r fails
Rejected(r) == {n \in DOMAIN ValidationOrder : FieldRejected(r, ValidationOrder[n])}

\* the request has gone through the checks of its route
PastValidate(r) ==
    /\ reqs[r].route # 0
    /\ \E n \in DOMAIN reqs[r].log : reqs[r].log[n].ev = "validate"

\* C31: a request that fails the schemas of several fields of its route is,
\* once the checks have run, in error with the ValidationError of the first
\* of these fields in the order headers, params, query, body.
C31_FirstFailingField ==
    \A r \in ReqIds :
        (PastValidate(r) /\ Cardinality(Rejected(r)) > 1) =>
            \E n \in Rejected(r) :
                /\ \A m \in Rejected(r) : n <= m
                /\ reqs[r].err = createValidationError(KindOf(ValidationOrder[n]))


\* entry i of r's record is the call of a parse hook that returned a body
ParserYieldsAt(r, i) ==
    /\ reqs[r].route # 0
    /\ reqs[r].log[i].ev = "parse"
    /\ \E n \in DOMAIN Registered(r).parse :
           /\ Registered(r).parse[n].id = reqs[r].log[i].id
           /\ HookReturn(Registered(r).parse[n]) # Undef

\* the body a parse hook returned at entry i of r's record
YieldedAt(r, i) == [t |-> "str", k |-> {}, id |-> reqs[r].log[i].id]

\* C32: after a parse hook has returned a body for a request, no other parse
\* hook is called and no decoder reads the request, and once parsing is over
\* the body of the request is the one that hook returned.
C32_FirstParserWins ==
    \A r \in ReqIds : \A i \in DOMAIN reqs[r].log :
        ParserYieldsAt(r, i) =>
            /\ \A j \in DOMAIN reqs[r].log :
                   j > i => reqs[r].log[j].ev \notin {"parse", "decode"}
            /\ PastParse(r) => ParsedBody(r) = YieldedAt(r, i)


\* the route of request r with every function made synchronous still parses:
\* what is left of maybeAsync when no function is an AsyncFunction
SyncTwinParses(r) ==
    reqs[r].method # "GET" \/ Len(CHooks(r).parse) > 0

\* C33: a request handled by the composed handler of a route with an
\* asynchronous handler or hook has the context body and the parsing steps
\* of the same route with synchronous functions: where that route does not
\* parse, the body stays undefined and nothing reads the request.
C33_SyncAsyncSame ==
    \A r \in ReqIds :
        (/\ reqs[r].impl = "compose"
         /\ PastParse(r)
         /\ ~SyncTwinParses(r)) =>
            /\ context[r].body = Undef
            /\ \A n \in DOMAIN reqs[r].log :
                   reqs[r].log[n].ev \notin {"parse", "decode"}


\* the object schema sid was given no additionalProperties by its author
\* (the descriptors of InitHeap carry none)
ObjectSchema(s) == s.kind = "inline" /\ InitHeap[s.id].type = "object"

\* C34: on every registered route, the validator compiled from an object
\* schema declared for headers accepts extra fields, and the validators
\* compiled from object schemas declared for body, params and query reject
\* them.
C34_ExtraFieldsPolicy ==
    \A e \in RegisteredEntries :
        /\ ObjectSchema(e.decl.headers) => e.validator.header.ok /\ e.validator.header.ap
        /\ \A f \in {"body", "params", "query"} :
               ObjectSchema(e.decl[f]) => e.validator[f].ok /\ ~e.validator[f].ap


\* guard(hook, run) returns: the child's frame is closed
GuardReturns ==
    /\ Len(scopes) > 1
    /\ Top.kind = "guard"
    /\ Len(scopes') = Len(scopes) - 1

\* in merged, every key of outer that inner lacks has the value of outer, and
\* every key of both has the value of inner, objects compared key by key
RECURSIVE InnerWins(_, _, _)
InnerWins(merged, outer, inner) ==
    /\ isObject(merged)
    /\ \A key \in DOMAIN outer.m :
           /\ key \in DOMAIN merged.m
           /\ IF key \notin DOMAIN inner.m THEN merged.m[key] = outer.m[key]
              ELSE IF isObject(outer.m[key]) /\ isObject(inner.m[key])
              THEN InnerWins(merged.m[key], outer.m[key], inner.m[key])
              ELSE merged.m[key] = inner.m[key]

\* C35: when guard merges its hook (outer) with the hooks of a route of its
\* child (inner), the detail registered for the route has, for every leaf
\* key of both, the value of inner, and for every key of outer alone, the
\* value of outer.
C35_DetailMerge ==
    [][GuardReturns =>
          \A i \in DOMAIN Top.inst.routes :
              LET outer == orObject(Top.hook.schema.detail)
                  inner == orObject(Top.inst.routes[i].hooks.schema.detail)
              IN  InnerWins(orObject(Folded(i).reg.schema.detail), outer, inner)]_vars


\* C36: a request whose headers fail the headers schema of its route's own
\* hook argument calls no beforeHandle hook and no handler, and once the
\* checks of the route have run it is in error with a ValidationError of
\* kind header.
C36_RouteHeadersEnforced ==
    \A r \in ReqIds :
        (/\ reqs[r].route # 0
         /\ HEntry(r).guarded = <<>>
         /\ FieldRejected(r, "headers")) =>
            /\ \A n \in DOMAIN reqs[r].log :
                   reqs[r].log[n].ev \notin {"beforeHandle", "handle"}
            /\ PastValidate(r) => reqs[r].err = createValidationError("header")


\* C37: no hook and no handler is called twice for the same request.
C37_HookCalledOnce ==
    \A r \in ReqIds : \A i, j \in UserCalls(r) :
        reqs[r].log[i].id = reqs[r].log[j].id => i = j


\* C38: a call of Elysia.handle that has ended has produced a response: its
\* promise was not rejected.
C38_HandleAlwaysResponds ==
    \A r \in ReqIds :
        (reqs[r].impl = "handle" /\ reqs[r].pc = "done") =>
            reqs[r].out # "rejected"


\* entry i of r's record is the call of an error hook
ErrorCallAt(r, i) == reqs[r].log[i].ev \in {"error", "globalError"}

\* the error hooks that may be called for request r
ErrorHooksFor(r) ==
    (IF reqs[r].route # 0 THEN SeqSet(Registered(r).error) ELSE {})
        \cup SeqSet(App.event.error)

\* an error hook called for request r staged a status
ErrorHookStaged(r) ==
    \E i \in DOMAIN reqs[r].log :
        /\ ErrorCallAt(r, i)
        /\ \E h \in ErrorHooksFor(r) :
               h.id = reqs[r].log[i].id /\ HookStatus(h) # 0

\* C39: the step that starts the error pipeline of a request, before any
\* error hook is called, sets the staged status to 500 when it is below 300
\* and leaves it when it is 300 or more; a response made from the value of
\* an error hook then has a status of 300 or more unless an error hook
\* staged one.
C39_ErrorStatusForced ==
    [][\A r \in ReqIds :
          /\ (reqs[r].pc = "catch" /\ reqs'[r].pc # "catch") =>
                 LET set == reqs'[r].set
                 IN  /\ sets'[set].status =
                            IF sets[set].status < 300 THEN 500
                            ELSE sets[set].status
                     /\ \A i \in DOMAIN reqs'[r].log : ~ErrorCallAt(r, i)'
          /\ (reqs'[r].pc = "done" /\ reqs'[r].out = "errorHook") =>
                 reqs'[r].resp.status >= 300 \/ ErrorHookStaged(r)']_vars

\* a transform hook staged 418, the handler raised with that status staged,
\* and an error hook answered: the response carries 418
C39_Witness ==
    /\ reqs[1].pc = "done"
    /\ reqs[1].out = "errorHook"
    /\ reqs[1].calls = 1
    /\ reqs[1].staged = 418
    /\ reqs[1].resp.status = 418


InheritRequests ==
    {Request("GET", Slash, "", {}, {}, {}),
     Request("GET", PathA, "", {}, {}, {}),
     Request("POST", Slash, "application/json", {"username"}, {}, {})}

\* Hooks registered on the application before and after a group or guard
\* call, routes with and without hooks of their own declared inside and
\* outside the child, then one request.
NextInherit ==
    \/ OnRequest({"nop"})
    \/ OnParse({"nop"})
    \/ OnTransform({"nop"})
    \/ OnBeforeHandle({"nop", "val"})
    \/ OnAfterHandle({"nop"})
    \/ OnError({"nop", "val"})
    \/ GroupBegin({PathA})
    \/ GuardBegin({CfgHooks})
    \/ Route({"GET", "POST"}, {Slash}, {"ok", "throw"}, {CfgNone, CfgHooks})
    \/ GroupEnd
    \/ GuardEnd
    \/ Serve
    \/ Begin(1, InheritRequests)
    \/ ComposedBegin(1, InheritRequests)
    \/ HandleStep(1)
    \/ ComposedStep(1)

SpecInherit == Init /\ [][NextInherit]_vars

InheritedEvents == {"transform", "beforeHandle", "afterHandle", "error"}

\* group or guard returns: the child's frame is closed
ChildReturns ==
    /\ Len(scopes) > 1
    /\ Len(scopes') = Len(scopes) - 1

\* the route of request r was declared in the callback of a group or guard
DeclaredInChild(r) ==
    /\ reqs[r].route # 0
    /\ \/ Len(HEntry(r).guarded) > 0
       \/ HEntry(r).path # Slash

\* call i made for request r is of a hook the application registered on
\* event ev after the route of r was declared
LaterParentCall(r, i, ev) ==
    /\ HookEvent(reqs[r].log[i].ev) = ev
    /\ reqs[r].log[i].id > HEntry(r).handle.id
    /\ \E n \in DOMAIN App.event[ev] :
           App.event[ev][n].id = reqs[r].log[i].id

\* C40: when a group or guard call returns, the hooks registered for each
\* route of the child on transform, beforeHandle, afterHandle and error begin
\* with the hooks the parent holds for that event, in the parent's order,
\* before the child's and the route's own; and no hook the parent registers
\* on one of these events after the call runs for a request to such a route.
C40_ParentHooksInherited ==
    [][/\ ChildReturns =>
              \A i \in DOMAIN Top.inst.routes : \A ev \in InheritedEvents :
                  LET parent == scopes[Len(scopes) - 1].inst.event[ev]
                      reg == Folded(i).reg[ev]
                  IN  /\ Len(reg) >= Len(parent)
                      /\ SubSeq(reg, 1, Len(parent)) = parent
       /\ \A r \in ReqIds :
              DeclaredInChild(r)' =>
                  \A i \in UserCalls(r)' : \A ev \in InheritedEvents :
                      ~LaterParentCall(r, i, ev)']_vars

=============================================================================
